---- MODULE Spec2Model ----
(***************************************************************************)
(* Session manager and resilient query/get executor of the Salesforce      *)
(* plugin: connectRaw (salesforce/utils.go), reconnect, queryWithRetry,    *)
(* getWithRetry and the two hydrate functions that use them                *)
(* (session auto-refresh plan, listSalesforceObjectsByTable and            *)
(* getSalesforceObjectbyID).                                               *)
(*                                                                         *)
(* A session (a *simpleforce.Client carrying a bearer token) is a positive *)
(* number, in order of creation; 0 is the nil client.  The remote side is  *)
(* the set of sessions it has expired.  Every goroutine that runs a        *)
(* hydrate call is a process with a program counter, a stack of return     *)
(* labels and the local variables of the functions it is inside.           *)
(*                                                                         *)
(* Also modelled: the memoized organization-id lookup (getOrganizationId)  *)
(* and the translation of qualifiers to a SOQL condition                   *)
(* (buildQueryFromQuals), a function of its three arguments; the schema    *)
(* functions getSalesforceColumnName, mergeTableColumns and dynamicColumns *)
(* (with strcase.ToCamel and strcase.ToSnake as released in v0.3.0), each  *)
(* a function of its arguments; and the caller's cancellation of a list    *)
(* operation.                                                              *)
(***************************************************************************)
EXTENDS Integers, Sequences, FiniteSets, TLC

\* ---------------------------------------------------------------- bounds
MaxOps == 2
MaxAuthOps == 3
MaxPages == 2
RecsPerPage == 2
MaxConcOps == 3
MaxOrgOps == 3
MaxCols == 2
MaxQuals == 1
MaxNameLen == 4
MaxMerge == 2
MaxFields == 2
MaxCancelOps == 1
MaxSharedOps == 2
MaxListOps == 1

Procs == {1, 2}
SeqProcs == {1}

\* ------------------------------------------------------------- constants
NoSession == 0
ErrNone == "nil"

\* cacheKeyClient, the one key connectRaw and reconnect use in the
\* connection cache; the cache is modelled as the slot under this key.
cacheKeyClient == "simpleforce"

ErrAccessTokenUrl == "access_token auth requires 'url' to be set"
ErrJwtUrl == "jwt auth requires 'url' to be set"
ErrJwtUsername == "jwt auth requires 'username' to be set"
ErrJwtClientId == "jwt auth requires 'client_id' to be set"
ErrKeyFile == "failed to read private key file"
ErrJwtLogin == "jwt login failed"
ErrPasswordUrl == "password auth requires 'url' to be set"
ErrPasswordLogin == "password login failed"
ErrCreateClient == "failed to create salesforce client"
ErrNoAuth == "no valid authentication credentials configured"
ErrCannotRefresh == "access_token auth cannot be refreshed automatically"
ErrClientNotFound == "client_not_found"
\* what the remote answers through an expired session, and another failure
ErrRemoteExpired == "http code: 401 Session expired or invalid INVALID_SESSION_ID"
ErrRemoteOther == "http code: 403 forbidden"

\* The Id of the remote's Organization record; 0 stands for the empty
\* string that orgId keeps when the query returns no record.
OrgId == 1
getOrganizationIdCacheKey == "getOrganizationId"

\* The marker substrings an error message contains (strings.Contains).
MessageParts(err) ==
  CASE err = ErrRemoteExpired -> {"http code: 401", "INVALID_SESSION_ID"}
    [] err = ErrRemoteOther -> {"http code: 403"}
    [] OTHER -> {}

isSessionExpiredError(err) ==
  /\ err # ErrNone
  /\ \/ "INVALID_SESSION_ID" \in MessageParts(err)
     \/ "SESSION_EXPIRED" \in MessageParts(err)
     \/ "http code: 401" \in MessageParts(err)

\* salesforceConfig: each field is TRUE when it is set and non-empty.
ConfigFields ==
  {"url", "username", "password", "access_token", "refresh_token",
   "client_secret", "private_key", "private_key_file", "client_id"}

AllConfigs == [ConfigFields -> BOOLEAN]

\* isAccessTokenAuth taking the token for refreshable when a password is
\* configured beside it.
isAccessTokenAuth_UnlessPassword(cfg) ==
  cfg["access_token"] /\ ~(cfg["username"] /\ cfg["password"])

isAccessTokenAuth(cfg) == cfg["access_token"]

\* SelectMethod with the password branch tested before the JWT branch.
SelectMethod_PasswordFirst(cfg) ==
  IF cfg["access_token"] THEN "access_token"
  ELSE IF cfg["username"] /\ cfg["password"] THEN "password"
  ELSE IF cfg["private_key"] \/ cfg["private_key_file"] THEN "jwt"
  ELSE "none"

\* SelectMethod with a branch entered only when its companion fields are
\* set, so that an incomplete branch is passed over for a lower one.
SelectMethod_SkipsIncomplete(cfg) ==
  IF cfg["access_token"] /\ cfg["url"] THEN "access_token"
  ELSE IF /\ cfg["private_key"] \/ cfg["private_key_file"]
          /\ cfg["url"] /\ cfg["username"] /\ cfg["client_id"] THEN "jwt"
  ELSE IF cfg["username"] /\ cfg["password"] THEN "password"
  ELSE "none"

\* The branch of connectRaw that a configuration enters.
SelectMethod(cfg) ==
  IF cfg["access_token"] THEN "access_token"
  ELSE IF cfg["private_key"] \/ cfg["private_key_file"] THEN "jwt"
  ELSE IF cfg["username"] /\ cfg["password"] THEN "password"
  ELSE "none"

\* The companion-field check of a branch: the error it fails with before
\* any client is built, or ErrNone.
CompanionError(cfg) ==
  CASE SelectMethod(cfg) = "access_token" ->
         IF ~cfg["url"] THEN ErrAccessTokenUrl ELSE ErrNone
    [] SelectMethod(cfg) = "jwt" ->
         IF ~cfg["url"] THEN ErrJwtUrl
         ELSE IF ~cfg["username"] THEN ErrJwtUsername
         ELSE IF ~cfg["client_id"] THEN ErrJwtClientId
         ELSE ErrNone
    [] SelectMethod(cfg) = "password" ->
         IF ~cfg["url"] THEN ErrPasswordUrl ELSE ErrNone
    [] OTHER -> ErrNoAuth

\* What can happen once the companion fields are present: the outcomes of
\* loadPrivateKey, loginJWT, NewClient and LoginPassword.
AuthOutcomes(cfg) ==
  CASE SelectMethod(cfg) = "access_token" -> {"ok", "client_nil"}
    [] SelectMethod(cfg) = "jwt" ->
         {"ok", "key_invalid", "rejected", "client_nil"}
           \cup (IF cfg["private_key"] THEN {} ELSE {"key_unreadable"})
    [] SelectMethod(cfg) = "password" -> {"ok", "client_nil", "rejected"}
    [] OTHER -> {"none"}

\* The error an outcome is reported with.
AuthError(cfg, out) ==
  CASE out = "ok" -> ErrNone
    [] out = "client_nil" -> ErrCreateClient
    [] out = "key_unreadable" -> ErrKeyFile
    [] out \in {"key_invalid", "rejected"} ->
         IF SelectMethod(cfg) = "jwt" THEN ErrJwtLogin ELSE ErrPasswordLogin
    [] OTHER -> ErrNoAuth

\* Whether an outcome is reached through a request to the token endpoint
\* (http.PostForm in loginJWT, LoginPassword).
AuthUsesNetwork(cfg, out) ==
  \/ SelectMethod(cfg) = "jwt" /\ out \in {"ok", "rejected", "client_nil"}
  \/ SelectMethod(cfg) = "password" /\ out \in {"ok", "rejected"}

\* ------------------------------------------------------------ the remote
\* Records of page k of a result set; page n of n reports Done.
PageRecords(k) == [i \in 1..RecsPerPage |-> (k - 1) * RecsPerPage + i]

RECURSIVE AllRecords(_)
AllRecords(n) == IF n = 0 THEN <<>> ELSE AllRecords(n - 1) \o PageRecords(n)

\* ---------------------------------------------------- buildQueryFromQuals
\* A string that the code looks into (a column name) is the sequence of
\* its characters; Text makes the string of it.
RECURSIVE Text(_)
Text(cs) == IF cs = <<>> THEN "" ELSE Head(cs) \o Text(Tail(cs))

LowerCase ==
  <<"a", "b", "c", "d", "e", "f", "g", "h", "i", "j", "k", "l", "m",
    "n", "o", "p", "q", "r", "s", "t", "u", "v", "w", "x", "y", "z">>

UpperCase ==
  <<"A", "B", "C", "D", "E", "F", "G", "H", "I", "J", "K", "L", "M",
    "N", "O", "P", "Q", "R", "S", "T", "U", "V", "W", "X", "Y", "Z">>

Digits == <<"0", "1", "2", "3", "4", "5", "6", "7", "8", "9">>

IsIn(c, alphabet) == \E i \in 1..Len(alphabet) : alphabet[i] = c

ToUpper(c) ==
  IF IsIn(c, LowerCase)
    THEN UpperCase[CHOOSE i \in 1..Len(LowerCase) : LowerCase[i] = c]
    ELSE c

ToLower(c) ==
  IF IsIn(c, UpperCase)
    THEN LowerCase[CHOOSE i \in 1..Len(UpperCase) : UpperCase[i] = c]
    ELSE c

\* strcase.ToCamel: a letter is written, in upper case when it is the
\* first or follows a digit or separator, in lower case when it is a
\* capital that follows a capital; a digit is written; every other
\* character is dropped.
RECURSIVE ToCamelFrom(_, _, _)
ToCamelFrom(cs, capNext, prevIsCap) ==
  IF cs = <<>> THEN <<>>
  ELSE LET c == Head(cs)
           vIsCap == IsIn(c, UpperCase)
           vIsLow == IsIn(c, LowerCase)
           v == IF capNext THEN ToUpper(c)
                ELSE IF prevIsCap /\ vIsCap THEN ToLower(c)
                ELSE c
       IN IF vIsCap \/ vIsLow
            THEN <<v>> \o ToCamelFrom(Tail(cs), FALSE, vIsCap)
          ELSE IF IsIn(c, Digits)
            THEN <<c>> \o ToCamelFrom(Tail(cs), TRUE, FALSE)
          ELSE ToCamelFrom(Tail(cs), c \in {"_", " ", "-", "."}, FALSE)

ToCamel(cs) == ToCamelFrom(cs, TRUE, FALSE)

HasSuffix(cs, suffix) ==
  /\ Len(cs) >= Len(suffix)
  /\ SubSeq(cs, Len(cs) - Len(suffix) + 1, Len(cs)) = suffix

\* getSalesforceColumnName, as the characters of the name it returns: a
\* custom field (suffix __c) keeps its name.
ColumnNameChars_CamelsCustom(name) == ToCamel(name)

ColumnNameChars(name) ==
  IF HasSuffix(name, <<"_", "_", "c">>) THEN name
  ELSE ToCamel(name)

getSalesforceColumnName(name) == Text(ColumnNameChars(name))

\* fmt's %d of a number that is not negative.
RECURSIVE FormatD(_)
FormatD(n) ==
  IF n < 10 THEN Digits[n + 1] ELSE FormatD(n \div 10) \o Digits[(n % 10) + 1]

\* A number in decimal, with zeros in front up to the given width.
RECURSIVE Padded(_, _)
Padded(n, width) ==
  IF width <= 1 THEN FormatD(n)
  ELSE IF n < 10 THEN Padded(0, width - 1) \o Digits[n + 1]
  ELSE Padded(n \div 10, width - 1) \o Digits[(n % 10) + 1]

\* fmt's %f of a double that is a whole number of millionths.
Million == 1000000
FormatF(d) == FormatD(d \div Million) \o "." \o Padded(d % Million, 6)

\* Time.Format of the two layouts, for an instant given by its UTC fields.
FormatDate(t) ==
  Padded(t.year, 4) \o "-" \o Padded(t.month, 2) \o "-" \o Padded(t.day, 2)

FormatDateTime(t) ==
  FormatDate(t) \o "T" \o Padded(t.hour, 2) \o ":" \o Padded(t.minute, 2)
    \o ":" \o Padded(t.second, 2) \o "Z"

\* strings.Join
RECURSIVE Join(_, _)
Join(strs, sep) ==
  IF strs = <<>> THEN ""
  ELSE IF Len(strs) = 1 THEN strs[1]
  ELSE strs[1] \o sep \o Join(Tail(strs), sep)

\* proto.QualValue: one of the kinds is set, the getters of the others
\* give their zero value; AsTime of an absent timestamp is the Unix epoch.
NoTime ==
  [year |-> 1970, month |-> 1, day |-> 1, hour |-> 0, minute |-> 0,
   second |-> 0]

NilValue ==
  [kind |-> "nil", str |-> "", list |-> <<>>, bool |-> FALSE, int |-> 0,
   double |-> 0, time |-> NoTime]

StringValue(v) == [NilValue EXCEPT !.kind = "string", !.str = v]
ListValue(vs) == [NilValue EXCEPT !.kind = "list", !.list = vs]
BoolValue(b) == [NilValue EXCEPT !.kind = "bool", !.bool = b]
Int64Value(i) == [NilValue EXCEPT !.kind = "int", !.int = i]
DoubleValue(d) == [NilValue EXCEPT !.kind = "double", !.double = d]
TimestampValue(t) == [NilValue EXCEPT !.kind = "timestamp", !.time = t]

Qual(operator, value) == [Operator |-> operator, Value |-> value]

Column(name, type) == [Name |-> name, Type |-> type]

\* The STRING case with an empty list compiled to IN ('').
StringClause_QuotesEmptyList(name, qual) ==
  LET value == qual.Value
  IN IF value.kind = "list"
       THEN IF qual.Operator = "="
              THEN <<name \o " IN ('" \o Join(value.list, "','") \o "')">>
            ELSE IF qual.Operator = "<>"
              THEN <<name \o " NOT IN ('" \o Join(value.list, "','") \o "')">>
            ELSE <<>>
       ELSE IF qual.Operator = "="
              THEN <<name \o " = '" \o value.str \o "'">>
            ELSE IF qual.Operator = "<>"
              THEN <<name \o " != '" \o value.str \o "'">>
            ELSE <<>>

\* The STRING case: a list value gives IN or NOT IN unless the list is
\* empty, a scalar gives = or !=.
StringClause(name, qual) ==
  LET value == qual.Value
  IN IF value.kind = "list"
       THEN IF qual.Operator = "=" /\ Len(value.list) > 0
              THEN <<name \o " IN ('" \o Join(value.list, "','") \o "')">>
            ELSE IF qual.Operator = "<>" /\ Len(value.list) > 0
              THEN <<name \o " NOT IN ('" \o Join(value.list, "','") \o "')">>
            ELSE <<>>
       ELSE IF qual.Operator = "="
              THEN <<name \o " = '" \o value.str \o "'">>
            ELSE IF qual.Operator = "<>"
              THEN <<name \o " != '" \o value.str \o "'">>
            ELSE <<>>

\* The BOOL case with the literal taken from the qualifier's value.
BoolClause_ByValue(name, qual) ==
  IF qual.Operator = "<>"
    THEN <<name \o " = " \o (IF qual.Value.bool THEN "FALSE" ELSE "TRUE")>>
  ELSE IF qual.Operator = "="
    THEN <<name \o " = " \o (IF qual.Value.bool THEN "TRUE" ELSE "FALSE")>>
  ELSE <<>>

\* The BOOL case: the operator alone decides the literal.
BoolClause(name, qual) ==
  IF qual.Operator = "<>" THEN <<name \o " = " \o "FALSE">>
  ELSE IF qual.Operator = "=" THEN <<name \o " = " \o "TRUE">>
  ELSE <<>>

\* The INT and DOUBLE cases: <> becomes !=, every other operator is
\* written as it is.
IntClause(name, qual) ==
  IF qual.Operator = "<>"
    THEN <<name \o " != " \o FormatD(qual.Value.int)>>
    ELSE <<name \o " " \o qual.Operator \o " " \o FormatD(qual.Value.int)>>

DoubleClause(name, qual) ==
  IF qual.Operator = "<>"
    THEN <<name \o " != " \o FormatF(qual.Value.double)>>
    ELSE <<name \o " " \o qual.Operator \o " " \o FormatF(qual.Value.double)>>

\* The TIMESTAMP case with the layout taken from the value: the date
\* layout for an instant at midnight.
TimestampClause_ByValue(name, qual, remoteType) ==
  LET t == qual.Value.time
  IN IF qual.Operator \in {"=", ">=", ">", "<=", "<"}
       THEN <<name \o " " \o qual.Operator \o " " \o
                (IF t.hour = 0 /\ t.minute = 0 /\ t.second = 0
                   THEN FormatDate(t) ELSE FormatDateTime(t))>>
       ELSE <<>>

\* The TIMESTAMP case: salesforceCols[filterQual.Name] decides the layout.
TimestampClause(name, qual, remoteType) ==
  IF qual.Operator \in {"=", ">=", ">", "<=", "<"}
    THEN <<name \o " " \o qual.Operator \o " " \o
             (IF remoteType = "date" THEN FormatDate(qual.Value.time)
              ELSE FormatDateTime(qual.Value.time))>>
    ELSE <<>>

\* A map lookup that gives the zero value for a missing key.
Lookup(map, key, zero) == IF key \in DOMAIN map THEN map[key] ELSE zero

\* The body of "for _, qual := range filterQual.Quals": the filters one
\* qualifier appends.
QualFilters(column, qual, remoteType) ==
  LET name == getSalesforceColumnName(column.Name)
  IN IF qual.Value.kind = "nil" THEN <<>>
     ELSE CASE column.Type = "STRING" -> StringClause(name, qual)
            [] column.Type = "BOOL" -> BoolClause(name, qual)
            [] column.Type = "INT" -> IntClause(name, qual)
            [] column.Type = "DOUBLE" -> DoubleClause(name, qual)
            [] column.Type = "TIMESTAMP" ->
                 TimestampClause(name, qual, remoteType)
            [] OTHER -> <<>>

RECURSIVE QualsFilters(_, _, _)
QualsFilters(column, quals, remoteType) ==
  IF quals = <<>> THEN <<>>
  ELSE QualFilters(column, Head(quals), remoteType)
         \o QualsFilters(column, Tail(quals), remoteType)

\* The body of "for _, filterQualItem := range tableColumns".
ColumnFilters(column, equalQuals, salesforceCols) ==
  IF column.Name \notin DOMAIN equalQuals THEN <<>>
  ELSE LET filterQual == equalQuals[column.Name]
       IN IF filterQual.Name # column.Name THEN <<>>
          ELSE QualsFilters(column, filterQual.Quals,
                            Lookup(salesforceCols, filterQual.Name, ""))

RECURSIVE Filters(_, _, _)
Filters(tableColumns, equalQuals, salesforceCols) ==
  IF tableColumns = <<>> THEN <<>>
  ELSE ColumnFilters(Head(tableColumns), equalQuals, salesforceCols)
         \o Filters(Tail(tableColumns), equalQuals, salesforceCols)

\* buildQueryFromQuals with the filters of the first column put last.
buildQueryFromQuals_FirstColumnLast(equalQuals, tableColumns, salesforceCols) ==
  IF tableColumns = <<>> THEN ""
  ELSE Join(Filters(Tail(tableColumns), equalQuals, salesforceCols)
              \o Filters(<<Head(tableColumns)>>, equalQuals, salesforceCols),
            " AND ")

\* The filters joined by " AND ", or the empty string.
buildQueryFromQuals(equalQuals, tableColumns, salesforceCols) ==
  Join(Filters(tableColumns, equalQuals, salesforceCols), " AND ")

\* No call made yet.
NotBuilt ==
  [called |-> FALSE, equalQuals |-> <<>>, tableColumns |-> <<>>,
   salesforceCols |-> <<>>, result |-> ""]

\* ------------------------------------------------------ mergeTableColumns
\* The values of config.NamingConvention; "nil" is the pointer not set.
NamingConventions == {"nil", "snake_case", "api_native"}

isApiNative(cfg) == cfg.NamingConvention = "api_native"

isColumnAvailable(columnName, columns) ==
  \E i \in 1..Len(columns) : columns[i].Name = columnName

mergeTableColumns_NativeAlways(cfg, dynamicCols, staticCols) ==
  IF isApiNative(cfg) THEN dynamicCols
  ELSE staticCols
         \o SelectSeq(dynamicCols,
                      LAMBDA col : ~isColumnAvailable(col.Name, staticCols))

\* Under api_native, with dynamic columns, the dynamic columns; otherwise
\* the static columns, then each dynamic column no static column is
\* named as.
mergeTableColumns(cfg, dynamicCols, staticCols) ==
  IF isApiNative(cfg) /\ Len(dynamicCols) > 0 THEN dynamicCols
  ELSE staticCols
         \o SelectSeq(dynamicCols,
                      LAMBDA col : ~isColumnAvailable(col.Name, staticCols))

\* --------------------------------------------------------- dynamicColumns
\* strings.TrimSpace, for the space character.
RECURSIVE TrimSpace(_)
TrimSpace(cs) ==
  IF cs # <<>> /\ Head(cs) = " " THEN TrimSpace(Tail(cs))
  ELSE IF cs # <<>> /\ cs[Len(cs)] = " "
    THEN TrimSpace(SubSeq(cs, 1, Len(cs) - 1))
  ELSE cs

\* strcase.ToSnake: every letter in lower case; an underscore where the
\* kind of character changes (after a lower-case letter or a digit, before
\* a digit, and before the last capital of a run that a lower-case letter
\* follows); a separator written as an underscore.
RECURSIVE ToSnakeAt(_, _)
ToSnakeAt(s, i) ==
  IF i > Len(s) THEN <<>>
  ELSE LET vIsCap == IsIn(s[i], UpperCase)
           vIsLow == IsIn(s[i], LowerCase)
           vIsNum == IsIn(s[i], Digits)
           v == ToLower(s[i])
           hasNext == i + 1 <= Len(s)
           nextIsCap == hasNext /\ IsIn(s[i + 1], UpperCase)
           nextIsLow == hasNext /\ IsIn(s[i + 1], LowerCase)
           nextIsNum == hasNext /\ IsIn(s[i + 1], Digits)
           prevIsCap == i > 1 /\ IsIn(s[i - 1], UpperCase)
           changes == \/ vIsCap /\ (nextIsLow \/ nextIsNum)
                      \/ vIsLow /\ (nextIsCap \/ nextIsNum)
                      \/ vIsNum /\ (nextIsCap \/ nextIsLow)
       IN (IF changes
             THEN (IF vIsCap /\ nextIsLow /\ prevIsCap THEN <<"_">> ELSE <<>>)
                    \o <<v>>
                    \o (IF vIsLow \/ vIsNum \/ nextIsNum THEN <<"_">> ELSE <<>>)
           ELSE IF v \in {" ", "_", "-", "."} THEN <<"_">>
           ELSE <<v>>)
            \o ToSnakeAt(s, i + 1)

ToSnake(cs) == ToSnakeAt(TrimSpace(cs), 1)

\* strings.ToLower.
RECURSIVE ToLowerAll(_)
ToLowerAll(cs) ==
  IF cs = <<>> THEN <<>> ELSE <<ToLower(Head(cs))>> \o ToLowerAll(Tail(cs))

\* An entry of a metadata field that may be missing: Nil, or the value.
Nil == <<>>

Some(v) == <<v>>

\* A field of the describe result; soapType is given by its parts
\* between colons.
Field(name, compoundFieldName, soapType) ==
  [name |-> name, compoundFieldName |-> compoundFieldName,
   soapType |-> soapType]

\* The name of a field's column: the field name under api_native, the
\* lower-cased name of a custom field, the snake-case name otherwise.
ColumnFieldName_SnakesCustom(fieldName, cfg) ==
  IF isApiNative(cfg) THEN fieldName
  ELSE ToSnake(fieldName)

ColumnFieldName(fieldName, cfg) ==
  IF isApiNative(cfg) THEN fieldName
  ELSE IF HasSuffix(fieldName, <<"_", "_", "c">>) THEN ToLowerAll(fieldName)
  ELSE ToSnake(fieldName)

\* The column type set for a soap type.
ColumnType(fieldType) ==
  CASE fieldType \in {"string", "ID", "time"} -> "STRING"
    [] fieldType \in {"date", "dateTime"} -> "TIMESTAMP"
    [] fieldType = "boolean" -> "BOOL"
    [] fieldType = "double" -> "DOUBLE"
    [] fieldType = "int" -> "INT"
    [] OTHER -> "JSON"

\* The key columns appended for a soap type: one, or none.
KeyColumnsFor_OrdersBooleans(name, fieldType) ==
  CASE fieldType \in {"string", "ID", "time"} ->
         <<[Name |-> name, Require |-> "optional",
            Operators |-> <<"=", "<>">>]>>
    [] fieldType \in {"date", "dateTime", "boolean", "double", "int"} ->
         <<[Name |-> name, Require |-> "optional",
            Operators |-> <<"=", ">", ">=", "<=", "<">>]>>
    [] OTHER -> <<>>

KeyColumnsFor(name, fieldType) ==
  CASE fieldType \in {"string", "ID", "time", "boolean"} ->
         <<[Name |-> name, Require |-> "optional",
            Operators |-> <<"=", "<>">>]>>
    [] fieldType \in {"date", "dateTime", "double", "int"} ->
         <<[Name |-> name, Require |-> "optional",
            Operators |-> <<"=", ">", ">=", "<=", "<">>]>>
    [] OTHER -> <<>>

OrganizationIdN ==
  <<"o", "r", "g", "a", "n", "i", "z", "a", "t", "i", "o", "n", "_", "i",
    "d">>

\* The loop over the fields: a field with no name, a part of a compound
\* field and a field with no soap type are passed over.
RECURSIVE FieldColumns(_, _, _)
FieldColumns(fields, cfg, sofar) ==
  IF fields = <<>> THEN sofar
  ELSE LET f == Head(fields)
       IN IF \/ f.name = Nil
             \/ f.compoundFieldName # Nil /\ f.compoundFieldName # f.name
             \/ f.soapType = Nil
            THEN FieldColumns(Tail(fields), cfg, sofar)
          ELSE LET soapType == f.soapType[1]
                   fieldType == soapType[Len(soapType)]
                   columnFieldName == ColumnFieldName(f.name[1], cfg)
               IN FieldColumns(Tail(fields), cfg,
                    [cols |-> Append(sofar.cols,
                                     Column(columnFieldName,
                                            ColumnType(fieldType))),
                     keyColumns |-> sofar.keyColumns
                                      \o KeyColumnsFor(columnFieldName,
                                                       fieldType),
                     salesforceCols |->
                       [n \in DOMAIN sofar.salesforceCols
                                 \cup {columnFieldName} |->
                          IF n = columnFieldName THEN fieldType
                          ELSE sofar.salesforceCols[n]]])

\* dynamicColumns: nothing for an object the remote does not describe;
\* otherwise organization_id, then the columns of the fields.
dynamicColumns(sObjectMeta, cfg) ==
  IF sObjectMeta = Nil
    THEN [cols |-> <<>>, keyColumns |-> <<>>, salesforceCols |-> <<>>]
  ELSE FieldColumns(sObjectMeta[1], cfg,
                    [cols |-> <<Column(OrganizationIdN, "STRING")>>,
                     keyColumns |-> <<>>, salesforceCols |-> <<>>])

\* No schema function called yet.
NotApplied == [fn |-> "none"]

VARIABLES
  config,      \* the connection's salesforceConfig, fixed for the run
  cache,       \* ConnectionCache entry under cacheKeyClient (0: absent)
  sessions,    \* number of sessions created so far
  expired,     \* sessions the remote no longer accepts
  deletes,     \* number of ConnectionCache.Delete calls
  setFails,    \* number of ConnectionCache.Set calls that returned an error
  memo,        \* the memoized result of getOrganizationIdUncached
  built,       \* the last call of buildQueryFromQuals and its result
  applied,     \* the last call of a schema function and its result
  opsStarted,  \* number of operations started
  pc,          \* per process: the statement it is at
  stack,       \* per process: labels to return to
  op,          \* per process: the operation it runs
  loc,         \* per process: local variables
  ret,         \* per process: the values the last call returned
  hist         \* per process: what the current operation has done

vars == <<config, cache, sessions, expired, deletes, setFails, memo, built,
          applied, opsStarted, pc, stack, op, loc, ret, hist>>

globals == <<config, cache, sessions, expired, deletes, setFails, memo,
             built, applied>>

\* The memoized entry under getOrganizationIdCacheKey: absent at first;
\* holder is the caller inside the guarded lookup (0: none), by the caller
\* whose lookup filled the entry.
NoMemo == [present |-> FALSE, value |-> 0, holder |-> 0, by |-> 0]

NoRet == [client |-> NoSession, val |-> 0, err |-> ErrNone]

InitLoc ==
  [client |-> NoSession, arg |-> NoSession, newClient |-> NoSession,
   made |-> NoSession, query |-> 0, npages |-> 0]

InitHist ==
  [log |-> <<>>, emitted |-> <<>>, calls |-> 0, fresh |-> NoSession,
   cacheAtCall |-> NoSession, cacheAtConnect |-> NoSession]

\* One entry of an operation's log.
Event(kind, p, page, sid, resp, attempt) ==
  [kind |-> kind, call |-> hist[p].calls, page |-> page, sid |-> sid,
   resp |-> resp, attempt |-> attempt, method |-> "-", net |-> FALSE]

\* An authentication attempt: the branch entered, the session it made (0 if
\* none), its error, and whether it sent a request to the token endpoint.
AuthEvent(p, m, sid, err, net) ==
  [Event("auth", p, 0, sid, err, 0) EXCEPT !.method = m, !.net = net]

Logged(p, e) == [hist EXCEPT ![p].log = Append(@, e)]

Init ==
  /\ config \in AllConfigs
  /\ cache = NoSession
  /\ sessions = 0
  /\ expired = {}
  /\ deletes = 0
  /\ setFails = 0
  /\ memo = NoMemo
  /\ built = NotBuilt
  /\ applied = NotApplied
  /\ opsStarted = 0
  /\ pc = [p \in Procs |-> "idle"]
  /\ stack = [p \in Procs |-> <<>>]
  /\ op = [p \in Procs |-> "none"]
  /\ loc = [p \in Procs |-> InitLoc]
  /\ ret = [p \in Procs |-> NoRet]
  /\ hist = [p \in Procs |-> InitHist]

\* ------------------------------------------------------- call and return
Goto(p, label) == pc' = [pc EXCEPT ![p] = label]

Return(p, r) ==
  /\ pc' = [pc EXCEPT ![p] = Head(stack[p])]
  /\ stack' = [stack EXCEPT ![p] = Tail(stack[p])]
  /\ ret' = [ret EXCEPT ![p] = r]

CanStart(p) == pc[p] \in {"idle", "done"}

Start(p, name, label, cont, n) ==
  /\ CanStart(p)
  /\ opsStarted' = opsStarted + 1
  /\ op' = [op EXCEPT ![p] = name]
  /\ pc' = [pc EXCEPT ![p] = label]
  /\ stack' = [stack EXCEPT ![p] = cont]
  /\ loc' = [loc EXCEPT ![p] = [InitLoc EXCEPT !.npages = n]]
  /\ ret' = [ret EXCEPT ![p] = NoRet]
  /\ hist' = [hist EXCEPT ![p] = [InitHist EXCEPT !.cacheAtCall = cache]]
  /\ UNCHANGED globals

\* ------------------------------------------------------------ connectRaw
\* ConnectGet without the cache lookup.
ConnectGet_IgnoresCache(p) ==
  /\ pc[p] = "c_get"
  /\ Goto(p, "c_auth")
  /\ hist' = [hist EXCEPT ![p].cacheAtConnect = cache]
  /\ UNCHANGED <<stack, ret>>
  /\ UNCHANGED <<globals, opsStarted, op, loc>>

\* cc.Get(ctx, cacheKey): a hit returns the cached client.
ConnectGet(p) ==
  /\ pc[p] = "c_get"
  /\ IF cache # NoSession
       THEN /\ Return(p, [client |-> cache, val |-> 0, err |-> ErrNone])
            /\ hist' = [hist EXCEPT
                 ![p].cacheAtConnect = cache,
                 ![p].log = Append(@, Event("hit", p, 0, cache, ErrNone, 0))]
       ELSE /\ Goto(p, "c_auth")
            /\ hist' = [hist EXCEPT ![p].cacheAtConnect = cache]
            /\ UNCHANGED <<stack, ret>>
  /\ UNCHANGED <<globals, opsStarted, op, loc>>

\* ConnectAuth with the client stored in the cache before the login whose
\* rejection it then reports.
ConnectAuth_CachesBeforeLogin(p) ==
  /\ pc[p] = "c_auth"
  /\ LET m == SelectMethod(config)
         cerr == CompanionError(config)
     IN IF cerr # ErrNone
          THEN /\ Return(p, [client |-> NoSession, val |-> 0, err |-> cerr])
               /\ hist' = Logged(p, AuthEvent(p, m, NoSession, cerr, FALSE))
               /\ UNCHANGED <<sessions, expired, loc, cache>>
          ELSE \E out \in AuthOutcomes(config) :
                 LET aerr == AuthError(config, out)
                     s == sessions + 1
                     net == AuthUsesNetwork(config, out)
                 IN /\ IF aerr # ErrNone
                         THEN /\ Return(p, [client |-> NoSession, val |-> 0,
                                            err |-> aerr])
                              /\ hist' = Logged(p,
                                   AuthEvent(p, m, NoSession, aerr, net))
                              /\ sessions' = IF out = "rejected" THEN s
                                             ELSE sessions
                              /\ cache' = IF out = "rejected" THEN s ELSE cache
                              /\ UNCHANGED <<expired, loc>>
                         ELSE /\ sessions' = s
                              /\ cache' = cache
                              \* a client built from the configured token
                              \* carries that token: expired if it is
                              /\ expired' = IF m = "access_token" /\ expired # {}
                                              THEN expired \cup {s} ELSE expired
                              /\ loc' = [loc EXCEPT ![p].made = s]
                              /\ hist' = Logged(p,
                                   AuthEvent(p, m, s, ErrNone, net))
                              /\ Goto(p, "c_set")
                              /\ UNCHANGED <<stack, ret>>
  /\ UNCHANGED <<config, memo, built, applied, deletes, setFails, opsStarted, op>>

\* The precedence chain: companion checks, key loading, login and client
\* construction of the selected branch.
ConnectAuth(p) ==
  /\ pc[p] = "c_auth"
  /\ LET m == SelectMethod(config)
         cerr == CompanionError(config)
     IN IF cerr # ErrNone
          THEN /\ Return(p, [client |-> NoSession, val |-> 0, err |-> cerr])
               /\ hist' = Logged(p, AuthEvent(p, m, NoSession, cerr, FALSE))
               /\ UNCHANGED <<sessions, expired, loc>>
          ELSE \E out \in AuthOutcomes(config) :
                 LET aerr == AuthError(config, out)
                     s == sessions + 1
                     net == AuthUsesNetwork(config, out)
                 IN /\ IF aerr # ErrNone
                         THEN /\ Return(p, [client |-> NoSession, val |-> 0,
                                            err |-> aerr])
                              /\ hist' = Logged(p,
                                   AuthEvent(p, m, NoSession, aerr, net))
                              /\ UNCHANGED <<sessions, expired, loc>>
                         ELSE /\ sessions' = s
                              \* a client built from the configured token
                              \* carries that token: expired if it is
                              /\ expired' = IF m = "access_token" /\ expired # {}
                                              THEN expired \cup {s} ELSE expired
                              /\ loc' = [loc EXCEPT ![p].made = s]
                              /\ hist' = Logged(p,
                                   AuthEvent(p, m, s, ErrNone, net))
                              /\ Goto(p, "c_set")
                              /\ UNCHANGED <<stack, ret>>
  /\ UNCHANGED <<config, memo, built, applied, cache, deletes, setFails, opsStarted, op>>

\* cc.Set(ctx, cacheKey, client): an error is logged and the client is
\* returned all the same.
ConnectSet(p) ==
  /\ pc[p] = "c_set"
  /\ \E stored \in BOOLEAN :
       /\ cache' = IF stored THEN loc[p].made ELSE cache
       /\ setFails' = IF stored THEN setFails ELSE setFails + 1
       /\ hist' = Logged(p, Event("store", p, 0, loc[p].made,
                                  IF stored THEN ErrNone ELSE "cache-set", 0))
  /\ Return(p, [client |-> loc[p].made, val |-> 0, err |-> ErrNone])
  /\ UNCHANGED <<config, memo, built, applied, sessions, expired, deletes, opsStarted,
                 op, loc>>

\* connect(ctx, d), called by a hydrate function on its own.
StartConnect(p) == Start(p, "connect", "c_get", <<"done">>, 0)

\* ------------------------------------------------------------- reconnect
\* ReconnectStart without the Delete of the cached client.
ReconnectStart_KeepsCache(p) ==
  /\ pc[p] = "r_start"
  /\ IF isAccessTokenAuth(config)
       THEN /\ Return(p, [client |-> NoSession, val |-> 0,
                          err |-> ErrCannotRefresh])
            /\ hist' = Logged(p, Event("reconnect", p, 0, NoSession, ErrNone, 0))
       ELSE /\ hist' = [hist EXCEPT ![p].log =
                 Append(Append(@, Event("reconnect", p, 0, NoSession, ErrNone, 0)),
                        Event("delete", p, 0, cache, ErrNone, 0))]
            /\ Goto(p, "c_get")
            /\ UNCHANGED <<stack, ret>>
  /\ UNCHANGED <<config, memo, built, applied, cache, deletes, sessions, expired, setFails,
                 opsStarted, op, loc>>

\* ReconnectStart with the Delete made before the access_token test.
ReconnectStart_DeletesFirst(p) ==
  /\ pc[p] = "r_start"
  /\ cache' = NoSession
  /\ deletes' = deletes + 1
  /\ IF isAccessTokenAuth(config)
       THEN /\ Return(p, [client |-> NoSession, val |-> 0,
                          err |-> ErrCannotRefresh])
            /\ hist' = Logged(p, Event("reconnect", p, 0, NoSession, ErrNone, 0))
       ELSE /\ hist' = [hist EXCEPT ![p].log =
                 Append(Append(@, Event("reconnect", p, 0, NoSession, ErrNone, 0)),
                        Event("delete", p, 0, cache, ErrNone, 0))]
            /\ Goto(p, "c_get")
            /\ UNCHANGED <<stack, ret>>
  /\ UNCHANGED <<config, memo, built, applied, sessions, expired, setFails, opsStarted,
                 op, loc>>

\* reconnect(ctx, d): refuses under access_token auth, otherwise deletes
\* the cached client and returns connect(ctx, d).
ReconnectStart(p) ==
  /\ pc[p] = "r_start"
  /\ IF isAccessTokenAuth(config)
       THEN /\ Return(p, [client |-> NoSession, val |-> 0,
                          err |-> ErrCannotRefresh])
            /\ hist' = Logged(p, Event("reconnect", p, 0, NoSession, ErrNone, 0))
            /\ UNCHANGED <<cache, deletes>>
       ELSE /\ cache' = NoSession
            /\ deletes' = deletes + 1
            /\ hist' = [hist EXCEPT ![p].log =
                 Append(Append(@, Event("reconnect", p, 0, NoSession, ErrNone, 0)),
                        Event("delete", p, 0, cache, ErrNone, 0))]
            /\ Goto(p, "c_get")
            /\ UNCHANGED <<stack, ret>>
  /\ UNCHANGED <<config, memo, built, applied, sessions, expired, setFails, opsStarted,
                 op, loc>>

\* reconnect(ctx, d), called on its own.
StartReconnect(p) == Start(p, "reconnect", "r_start", <<"done">>, 0)

\* ------------------------------------------------------ the remote side
\* client.Query(query) through session s: the error it returns.
QueryResponses(s) ==
  IF s \in expired THEN {ErrRemoteExpired} ELSE {ErrNone, ErrRemoteOther}

\* client.SObject(table).Get(id) through session s: 1 for a record, 0 for
\* nil.  Get swallows every error, so an expired session gives nil.
GetResponses(s) == IF s \in expired THEN {0} ELSE {0, 1}

\* The sessions a request is about to go through.
AboutToUse ==
  {loc[p].arg : p \in {q \in Procs :
                          pc[q] \in {"q_first", "g_get", "g_probe", "o_query"}}}
    \cup {loc[p].newClient : p \in {q \in Procs : pc[q] \in {"q_retry", "g_retry"}}}

\* The remote expires a session.  A caller learns of it only through a
\* request, so the step is taken when a request through s is next.  Under
\* access_token auth every client carries the one configured token, so all
\* of them expire together.
Expire(s) ==
  /\ s \in AboutToUse
  /\ s \notin expired
  /\ expired' = IF isAccessTokenAuth(config) THEN 1..sessions
                ELSE expired \cup {s}
  /\ UNCHANGED <<config, memo, built, applied, cache, sessions, deletes, setFails,
                 opsStarted, pc, stack, op, loc, ret, hist>>

\* -------------------------------------------------------- queryWithRetry
\* Entry of an executor call: one more call of the operation, and the
\* cache as the call finds it.
Called(p) ==
  [hist EXCEPT ![p].calls = @ + 1, ![p].cacheAtCall = cache]

\* QueryFirst with reconnect called after every error of the first attempt.
QueryFirst_ReconnectsOnAnyError(p) ==
  /\ pc[p] = "q_first"
  /\ \E resp \in QueryResponses(loc[p].arg) :
       /\ hist' = Logged(p, Event("query", p, loc[p].query, loc[p].arg, resp, 1))
       /\ IF resp = ErrNone
            THEN Return(p, [client |-> loc[p].arg, val |-> loc[p].query,
                            err |-> ErrNone])
            ELSE /\ Goto(p, "r_start")
                 /\ stack' = [stack EXCEPT ![p] = <<"q_reconnected">> \o @]
                 /\ UNCHANGED ret
  /\ UNCHANGED <<globals, opsStarted, op, loc>>

\* result, err := client.Query(query) and the two early returns.
QueryFirst(p) ==
  /\ pc[p] = "q_first"
  /\ \E resp \in QueryResponses(loc[p].arg) :
       /\ hist' = Logged(p, Event("query", p, loc[p].query, loc[p].arg, resp, 1))
       /\ IF resp = ErrNone
            THEN Return(p, [client |-> loc[p].arg, val |-> loc[p].query,
                            err |-> ErrNone])
            ELSE IF ~isSessionExpiredError(resp)
              THEN Return(p, [client |-> loc[p].arg, val |-> 0, err |-> resp])
              ELSE /\ Goto(p, "r_start")
                   /\ stack' = [stack EXCEPT ![p] = <<"q_reconnected">> \o @]
                   /\ UNCHANGED ret
  /\ UNCHANGED <<globals, opsStarted, op, loc>>

\* newClient, reconnErr := reconnect(ctx, d)
QueryReconnected(p) ==
  /\ pc[p] = "q_reconnected"
  /\ IF ret[p].err # ErrNone
       THEN /\ Return(p, [client |-> loc[p].arg, val |-> 0, err |-> ret[p].err])
            /\ UNCHANGED <<loc, hist>>
       ELSE /\ loc' = [loc EXCEPT ![p].newClient = ret[p].client]
            /\ hist' = [hist EXCEPT ![p].fresh = ret[p].client]
            /\ Goto(p, "q_retry")
            /\ UNCHANGED <<stack, ret>>
  /\ UNCHANGED <<globals, opsStarted, op>>

\* QueryRetry with the retry starting the query over from the first page.
QueryRetry_RestartsQuery(p) ==
  /\ pc[p] = "q_retry"
  /\ \E resp \in QueryResponses(loc[p].newClient) :
       /\ hist' = Logged(p, Event("query", p, 1, loc[p].newClient,
                                  resp, 2))
       /\ Return(p, [client |-> loc[p].newClient,
                     val |-> IF resp = ErrNone THEN 1 ELSE 0,
                     err |-> resp])
  /\ UNCHANGED <<globals, opsStarted, op, loc>>

\* QueryRetry with a retry that reconnects again on another expiry.
QueryRetry_RetriesAgain(p) ==
  /\ pc[p] = "q_retry"
  /\ \E resp \in QueryResponses(loc[p].newClient) :
       /\ hist' = Logged(p, Event("query", p, loc[p].query, loc[p].newClient,
                                  resp, 2))
       /\ IF isSessionExpiredError(resp)
            THEN /\ Goto(p, "r_start")
                 /\ stack' = [stack EXCEPT ![p] = <<"q_reconnected">> \o @]
                 /\ UNCHANGED ret
            ELSE Return(p, [client |-> loc[p].newClient,
                            val |-> IF resp = ErrNone THEN loc[p].query ELSE 0,
                            err |-> resp])
  /\ UNCHANGED <<globals, opsStarted, op, loc>>

\* result, err = newClient.Query(query); return newClient, result, err
QueryRetry(p) ==
  /\ pc[p] = "q_retry"
  /\ \E resp \in QueryResponses(loc[p].newClient) :
       /\ hist' = Logged(p, Event("query", p, loc[p].query, loc[p].newClient,
                                  resp, 2))
       /\ Return(p, [client |-> loc[p].newClient,
                     val |-> IF resp = ErrNone THEN loc[p].query ELSE 0,
                     err |-> resp])
  /\ UNCHANGED <<globals, opsStarted, op, loc>>

\* ------------------------------------------- listSalesforceObjectsByTable
StartList(p, n) == Start(p, "list", "c_get", <<"l_connected">>, n)

\* After client, err := connect(ctx, d): the two error returns, the query
\* for the first page and the first pass of the loop.
ListConnected(p) ==
  /\ pc[p] = "l_connected"
  /\ IF ret[p].err # ErrNone
       THEN /\ Goto(p, "done")
            /\ UNCHANGED <<ret, loc, hist, stack>>
       ELSE IF ret[p].client = NoSession
         THEN /\ Goto(p, "done")
              /\ ret' = [ret EXCEPT ![p].err = ErrClientNotFound]
              /\ UNCHANGED <<loc, hist, stack>>
         ELSE /\ loc' = [loc EXCEPT ![p].client = ret[p].client,
                                    ![p].arg = ret[p].client,
                                    ![p].query = 1]
              /\ hist' = Called(p)
              /\ Goto(p, "q_first")
              /\ stack' = [stack EXCEPT ![p] = <<"l_page">>]
              /\ UNCHANGED ret
  /\ UNCHANGED <<globals, opsStarted, op>>

\* The loop body after "client, result, err := queryWithRetry(...)".  The
\* := declares client, result and err anew inside the loop body, so the
\* client of the enclosing function, which the next pass hands to
\* queryWithRetry, keeps the value connect gave it.
\* decodeQueryResult re-encodes records that were decoded from JSON and is
\* taken to succeed.
ListPage_SwallowsError(p) ==
  /\ pc[p] = "l_page"
  /\ IF ret[p].err # ErrNone
       THEN /\ Goto(p, "done")
            /\ ret' = [ret EXCEPT ![p].err = ErrNone]
            /\ UNCHANGED <<loc, hist, stack>>
       ELSE LET emit == [hist EXCEPT
                  ![p].emitted = @ \o PageRecords(ret[p].val),
                  ![p].log = Append(@, Event("emit", p, ret[p].val,
                                             NoSession, ErrNone, 0))]
            IN /\ UNCHANGED ret
               /\ IF ret[p].val = loc[p].npages
                    THEN /\ Goto(p, "done")
                         /\ hist' = emit
                         /\ UNCHANGED <<loc, stack>>
                    ELSE /\ loc' = [loc EXCEPT ![p].query = ret[p].val + 1,
                                               ![p].arg = loc[p].client]
                         /\ hist' = [emit EXCEPT ![p].calls = @ + 1,
                                                 ![p].cacheAtCall = cache]
                         /\ Goto(p, "q_first")
                         /\ stack' = [stack EXCEPT ![p] = <<"l_page">>]
  /\ UNCHANGED <<globals, opsStarted, op>>

ListPage(p) ==
  /\ pc[p] = "l_page"
  /\ IF ret[p].err # ErrNone
       THEN /\ Goto(p, "done")
            /\ UNCHANGED <<loc, hist, stack>>
       ELSE LET emit == [hist EXCEPT
                  ![p].emitted = @ \o PageRecords(ret[p].val),
                  ![p].log = Append(@, Event("emit", p, ret[p].val,
                                             NoSession, ErrNone, 0))]
            IN IF ret[p].val = loc[p].npages
                 THEN /\ Goto(p, "done")
                      /\ hist' = emit
                      /\ UNCHANGED <<loc, stack>>
                 ELSE /\ loc' = [loc EXCEPT ![p].query = ret[p].val + 1,
                                            ![p].arg = loc[p].client]
                      /\ hist' = [emit EXCEPT ![p].calls = @ + 1,
                                              ![p].cacheAtCall = cache]
                      /\ Goto(p, "q_first")
                      /\ stack' = [stack EXCEPT ![p] = <<"l_page">>]
  /\ UNCHANGED <<globals, opsStarted, op, ret>>

\* The caller cancels the context of the operation p runs.  Nothing in
\* the list closure, connect or queryWithRetry reads ctx.Err() or ctx.Done().
Cancel(p) ==
  /\ op[p] = "list"
  /\ pc[p] \notin {"idle", "done"}
  /\ \A i \in 1..Len(hist[p].log) : hist[p].log[i].kind # "cancel"
  /\ hist' = Logged(p, Event("cancel", p, 0, NoSession, ErrNone, 0))
  /\ UNCHANGED <<globals, opsStarted, pc, stack, op, loc, ret>>

\* ---------------------------------------------------------- getWithRetry
\* obj := client.SObject(tableName).Get(id)
GetFirst(p) ==
  /\ pc[p] = "g_get"
  /\ \E obj \in GetResponses(loc[p].arg) :
       /\ hist' = Logged(p, Event("get", p, obj, loc[p].arg, ErrNone, 1))
       /\ IF obj # 0
            THEN Return(p, [client |-> loc[p].arg, val |-> obj, err |-> ErrNone])
            ELSE /\ Goto(p, "g_probe")
                 /\ UNCHANGED <<stack, ret>>
  /\ UNCHANGED <<globals, opsStarted, op, loc>>

\* GetProbe with a probe error that is no expiry signal returned to the caller.
GetProbe_SurfacesError(p) ==
  /\ pc[p] = "g_probe"
  /\ \E resp \in QueryResponses(loc[p].arg) :
       /\ hist' = Logged(p, Event("probe", p, 0, loc[p].arg, resp, 1))
       /\ IF resp = ErrNone
            THEN Return(p, [client |-> loc[p].arg, val |-> 0, err |-> ErrNone])
            ELSE IF ~isSessionExpiredError(resp)
              THEN Return(p, [client |-> loc[p].arg, val |-> 0, err |-> resp])
              ELSE /\ Goto(p, "r_start")
                   /\ stack' = [stack EXCEPT ![p] = <<"g_reconnected">> \o @]
                   /\ UNCHANGED ret
  /\ UNCHANGED <<globals, opsStarted, op, loc>>

\* _, err := client.Query(probe)
GetProbe(p) ==
  /\ pc[p] = "g_probe"
  /\ \E resp \in QueryResponses(loc[p].arg) :
       /\ hist' = Logged(p, Event("probe", p, 0, loc[p].arg, resp, 1))
       /\ IF resp = ErrNone
            THEN Return(p, [client |-> loc[p].arg, val |-> 0, err |-> ErrNone])
            ELSE IF ~isSessionExpiredError(resp)
              THEN Return(p, [client |-> loc[p].arg, val |-> 0, err |-> ErrNone])
              ELSE /\ Goto(p, "r_start")
                   /\ stack' = [stack EXCEPT ![p] = <<"g_reconnected">> \o @]
                   /\ UNCHANGED ret
  /\ UNCHANGED <<globals, opsStarted, op, loc>>

\* newClient, reconnErr := reconnect(ctx, d)
GetReconnected(p) ==
  /\ pc[p] = "g_reconnected"
  /\ IF ret[p].err # ErrNone
       THEN /\ Return(p, [client |-> loc[p].arg, val |-> 0, err |-> ret[p].err])
            /\ UNCHANGED <<loc, hist>>
       ELSE /\ loc' = [loc EXCEPT ![p].newClient = ret[p].client]
            /\ hist' = [hist EXCEPT ![p].fresh = ret[p].client]
            /\ Goto(p, "g_retry")
            /\ UNCHANGED <<stack, ret>>
  /\ UNCHANGED <<globals, opsStarted, op>>

\* GetRetry with a nil result of the repeated get probed again.
GetRetry_ProbesAgain(p) ==
  /\ pc[p] = "g_retry"
  /\ \E obj \in GetResponses(loc[p].newClient) :
       /\ hist' = Logged(p, Event("get", p, obj, loc[p].newClient, ErrNone, 2))
       /\ IF obj # 0
            THEN Return(p, [client |-> loc[p].newClient, val |-> obj,
                            err |-> ErrNone])
            ELSE /\ Goto(p, "g_probe")
                 /\ UNCHANGED <<stack, ret>>
  /\ UNCHANGED <<globals, opsStarted, op, loc>>

\* obj = newClient.SObject(tableName).Get(id); return newClient, obj, nil
GetRetry(p) ==
  /\ pc[p] = "g_retry"
  /\ \E obj \in GetResponses(loc[p].newClient) :
       /\ hist' = Logged(p, Event("get", p, obj, loc[p].newClient, ErrNone, 2))
       /\ Return(p, [client |-> loc[p].newClient, val |-> obj, err |-> ErrNone])
  /\ UNCHANGED <<globals, opsStarted, op, loc>>

\* ------------------------------------------------ getSalesforceObjectbyID
StartGet(p) == Start(p, "get", "c_get", <<"h_connected">>, 0)

\* The hydrate function hands the client it connected with to getWithRetry.
GetConnected(p) ==
  /\ pc[p] = "h_connected"
  /\ IF ret[p].err # ErrNone
       THEN /\ Goto(p, "done")
            /\ UNCHANGED <<loc, hist, stack>>
       ELSE /\ loc' = [loc EXCEPT ![p].client = ret[p].client,
                                  ![p].arg = ret[p].client]
            /\ hist' = Called(p)
            /\ Goto(p, "g_get")
            /\ stack' = [stack EXCEPT ![p] = <<"h_got">>]
  /\ UNCHANGED <<globals, opsStarted, op, ret>>

\* client, obj, err := getWithRetry(...): the error and the not-found
\* return, and the record otherwise.
GetDone(p) ==
  /\ pc[p] = "h_got"
  /\ loc' = [loc EXCEPT ![p].client = ret[p].client]
  /\ Goto(p, "done")
  /\ UNCHANGED <<globals, opsStarted, op, ret, hist, stack>>

\* ------------------------------------------------------ getOrganizationId
\* getOrganizationId(ctx, d, h) calls getOrganizationIdMemoize.
getOrganizationId(p) == Start(p, "orgid", "m_get", <<"done">>, 0)

\* The memoized function looks its cache key up: a hit returns the value.
MemoizeGet(p) ==
  /\ pc[p] = "m_get"
  /\ IF memo.present
       THEN /\ Return(p, [client |-> NoSession, val |-> memo.value,
                          err |-> ErrNone])
            /\ hist' = Logged(p, Event("memo", p, 0, NoSession, ErrNone, 0))
       ELSE /\ Goto(p, "m_lock")
            /\ UNCHANGED <<stack, ret, hist>>
  /\ UNCHANGED <<globals, opsStarted, op, loc>>

\* On a miss the caller takes the lock of the cache key and looks again;
\* if the entry is still absent it calls getOrganizationIdUncached, whose
\* first statement is connect(ctx, d).
MemoizeLock(p) ==
  /\ pc[p] = "m_lock"
  /\ memo.holder = 0
  /\ IF memo.present
       THEN /\ Return(p, [client |-> NoSession, val |-> memo.value,
                          err |-> ErrNone])
            /\ hist' = Logged(p, Event("memo", p, 0, NoSession, ErrNone, 0))
            /\ UNCHANGED memo
       ELSE /\ memo' = [memo EXCEPT !.holder = p]
            /\ Goto(p, "c_get")
            /\ stack' = [stack EXCEPT ![p] = <<"o_connected">> \o @]
            /\ UNCHANGED <<ret, hist>>
  /\ UNCHANGED <<config, cache, sessions, expired, deletes, setFails,
                 built, applied, opsStarted, op, loc>>

\* client, err := connect(ctx, d) in getOrganizationIdUncached: a
\* connection error is returned.
OrgConnected(p) ==
  /\ pc[p] = "o_connected"
  /\ IF ret[p].err # ErrNone
       THEN /\ Goto(p, "m_store")
            /\ UNCHANGED loc
       ELSE /\ loc' = [loc EXCEPT ![p].arg = ret[p].client]
            /\ Goto(p, "o_query")
  /\ UNCHANGED <<globals, opsStarted, op, ret, hist, stack>>

\* OrgQuery with an api error logged and the empty orgId returned.
OrgQuery_SwallowsError(p) ==
  /\ pc[p] = "o_query"
  /\ \E resp \in QueryResponses(loc[p].arg), n \in {0, 1} :
       /\ hist' = Logged(p, Event("orgquery", p, n, loc[p].arg, resp, 1))
       /\ ret' = [ret EXCEPT ![p] =
            [client |-> NoSession,
             val |-> IF resp = ErrNone /\ n > 0 THEN OrgId ELSE 0,
             err |-> ErrNone]]
  /\ Goto(p, "m_store")
  /\ UNCHANGED <<globals, opsStarted, op, loc, stack>>

\* result, err := client.Query(query): an api error is returned; otherwise
\* orgId is the Id of the first record, or empty when there is none.
OrgQuery(p) ==
  /\ pc[p] = "o_query"
  /\ \E resp \in QueryResponses(loc[p].arg), n \in {0, 1} :
       /\ hist' = Logged(p, Event("orgquery", p, n, loc[p].arg, resp, 1))
       /\ ret' = [ret EXCEPT ![p] =
            IF resp # ErrNone
              THEN [client |-> NoSession, val |-> 0, err |-> resp]
              ELSE [client |-> NoSession,
                    val |-> IF n > 0 THEN OrgId ELSE 0,
                    err |-> ErrNone]]
  /\ Goto(p, "m_store")
  /\ UNCHANGED <<globals, opsStarted, op, loc, stack>>

\* The memoized function stores a result that came without error under
\* the cache key, releases the lock and returns what the call returned.
MemoizeStore(p) ==
  /\ pc[p] = "m_store"
  /\ memo' = IF ret[p].err = ErrNone
               THEN [present |-> TRUE, value |-> ret[p].val,
                     holder |-> 0, by |-> p]
               ELSE [memo EXCEPT !.holder = 0]
  /\ Return(p, ret[p])
  /\ UNCHANGED <<config, cache, sessions, expired, deletes, setFails,
                 built, applied, opsStarted, op, loc, hist>>

\* ------------------------------------------- calls of buildQueryFromQuals
NameN == <<"n", "a", "m", "e">>
IsActiveN == <<"i", "s", "_", "a", "c", "t", "i", "v", "e">>
CreatedDateN == <<"c", "r", "e", "a", "t", "e", "d", "_", "d", "a", "t", "e">>
EmployeesN ==
  <<"n", "u", "m", "b", "e", "r", "_", "o", "f", "_",
    "e", "m", "p", "l", "o", "y", "e", "e", "s">>
AmountN == <<"a", "m", "o", "u", "n", "t">>
RatingN == <<"r", "a", "t", "i", "n", "g", "_", "_", "c">>
AddressN == <<"a", "d", "d", "r", "e", "s", "s">>
PhoneN == <<"p", "h", "o", "n", "e">>

\* 2024-01-15 10:30:00 UTC and 2024-06-20 00:00:00 UTC.
MorningOfJan15 ==
  [year |-> 2024, month |-> 1, day |-> 15, hour |-> 10, minute |-> 30,
   second |-> 0]

MidnightOfJun20 ==
  [year |-> 2024, month |-> 6, day |-> 20, hour |-> 0, minute |-> 0,
   second |-> 0]

Operators == {"=", "<>", ">", ">=", "<", "<=", "~~"}

SampleValues ==
  {NilValue, StringValue("Acme"), StringValue("O'Neil"),
   ListValue(<<>>), ListValue(<<"Acme", "Globex">>),
   ListValue(<<"Globex", "Acme">>), BoolValue(TRUE), BoolValue(FALSE),
   Int64Value(100), DoubleValue(99500000),
   TimestampValue(MorningOfJan15), TimestampValue(MidnightOfJun20)}

\* The remote type the type map declares for a column ("": no entry).
RemoteTypes == {"", "date", "dateTime"}

ColumnPool ==
  {Column(NameN, "STRING"), Column(IsActiveN, "BOOL"),
   Column(CreatedDateN, "TIMESTAMP"), Column(EmployeesN, "INT"),
   Column(AmountN, "DOUBLE"), Column(RatingN, "STRING"),
   Column(AddressN, "JSON")}

BuildInput(equalQuals, tableColumns, salesforceCols) ==
  [equalQuals |-> equalQuals, tableColumns |-> tableColumns,
   salesforceCols |-> salesforceCols]

\* One column with one qualifier: every operator with every kind of value,
\* under every declaration of the type map; the entry of the qualifier
\* map carries the column's name or another.
SingleQualInputs ==
  {BuildInput(
     [n \in {column.Name} |->
        [Name |-> IF named THEN column.Name ELSE PhoneN,
         Quals |-> <<Qual(operator, value)>>]],
     <<column>>,
     IF remoteType = "" THEN <<>> ELSE [n \in {column.Name} |-> remoteType]) :
   column \in ColumnPool, named \in BOOLEAN,
   operator \in Operators, value \in SampleValues,
   remoteType \in RemoteTypes}

\* Column lists of up to MaxCols of three columns in any order, with
\* qualifier maps that give each of four names no entry or up to MaxQuals
\* qualifiers; phone is in no column list.
ListedColumns ==
  {Column(NameN, "STRING"), Column(IsActiveN, "BOOL"),
   Column(CreatedDateN, "TIMESTAMP")}

QualNames == {NameN, IsActiveN, CreatedDateN, PhoneN}

SampleQuals(n) ==
  CASE n = NameN ->
         <<Qual("=", StringValue("Acme")),
           Qual("<>", ListValue(<<"Acme", "Globex">>))>>
    [] n = IsActiveN ->
         <<Qual("=", BoolValue(TRUE)), Qual("<>", BoolValue(FALSE))>>
    [] n = CreatedDateN ->
         <<Qual(">=", TimestampValue(MorningOfJan15)),
           Qual("<", TimestampValue(MidnightOfJun20))>>
    [] OTHER ->
         <<Qual("=", StringValue("555")), Qual("<>", StringValue("555"))>>

ColumnLists ==
  UNION {{cols \in [1..n -> ListedColumns] :
            \A i, j \in 1..n : i # j => cols[i] # cols[j]} : n \in 0..MaxCols}

QualChoices ==
  {[present |-> FALSE, picks |-> <<>>]}
    \cup {[present |-> TRUE, picks |-> picks] :
            picks \in UNION {[1..k -> 1..2] : k \in 0..MaxQuals}}

QualMap(choice) ==
  [n \in {m \in QualNames : choice[m].present} |->
     [Name |-> n,
      Quals |-> [i \in 1..Len(choice[n].picks) |->
                   SampleQuals(n)[choice[n].picks[i]]]]]

DeclaredTypes ==
  [n \in {NameN, IsActiveN, CreatedDateN} |->
     CASE n = NameN -> "string"
       [] n = IsActiveN -> "boolean"
       [] OTHER -> "dateTime"]

\* The call and its result, as the state keeps them.
Built(in) ==
  built' = [called |-> TRUE,
            equalQuals |-> in.equalQuals,
            tableColumns |-> in.tableColumns,
            salesforceCols |-> in.salesforceCols,
            result |-> buildQueryFromQuals(in.equalQuals, in.tableColumns,
                                           in.salesforceCols)]

\* A hydrate call builds the WHERE condition of its query, from one
\* qualifier on one column or from a qualifier map and a column list.
BuildQuery ==
  /\ ~built.called
  /\ \/ \E in \in SingleQualInputs : Built(in)
     \/ \E choice \in [QualNames -> QualChoices], cols \in ColumnLists :
          Built(BuildInput(QualMap(choice), cols, DeclaredTypes))
  /\ UNCHANGED <<config, cache, sessions, expired, deletes, setFails, memo,
                 applied, opsStarted, pc, stack, op, loc, ret, hist>>

\* ------------------------------------- calls of getSalesforceColumnName
\* The characters local column names are made of: lower-case letters,
\* a capital, the separator and a digit.
NameAlphabet == {"a", "B", "c", "_", "1"}

Names == UNION {[1..n -> NameAlphabet] : n \in 0..MaxNameLen}

\* A query is generated for a column: its name is converted, and the
\* converted name is converted once more.
ConvertName ==
  /\ applied.fn = "none"
  /\ \E name \in Names :
       applied' = [fn |-> "name",
                   name |-> name,
                   result |-> ColumnNameChars(name),
                   again |-> ColumnNameChars(ColumnNameChars(name))]
  /\ UNCHANGED <<config, cache, sessions, expired, deletes, setFails, memo,
                 built, opsStarted, pc, stack, op, loc, ret, hist>>

\* ------------------------------------------- calls of mergeTableColumns
\* Columns a table file declares, and columns made from the metadata: a
\* dynamic column may be named as a static one.
StaticPool ==
  {Column(NameN, "STRING"), Column(PhoneN, "STRING"), Column(AmountN, "DOUBLE")}

DynamicPool ==
  {Column(NameN, "JSON"), Column(PhoneN, "JSON"), Column(AddressN, "STRING")}

ListsOver(pool) == UNION {[1..n -> pool] : n \in 0..MaxMerge}

\* A table file declares no two columns of one name.
StaticLists ==
  {cols \in ListsOver(StaticPool) :
     \A i, j \in 1..Len(cols) : cols[i].Name = cols[j].Name => i = j}

\* A table is set up: its static and dynamic columns are merged.
MergeColumns ==
  /\ applied.fn = "none"
  /\ \E convention \in NamingConventions,
        dynamicCols \in ListsOver(DynamicPool),
        staticCols \in StaticLists :
       applied' = [fn |-> "merge",
                   config |-> [NamingConvention |-> convention],
                   dynamicColumns |-> dynamicCols,
                   staticColumns |-> staticCols,
                   result |-> mergeTableColumns(
                                [NamingConvention |-> convention],
                                dynamicCols, staticCols)]
  /\ UNCHANGED <<config, cache, sessions, expired, deletes, setFails, memo,
                 built, opsStarted, pc, stack, op, loc, ret, hist>>

\* ----------------------------------------------- calls of dynamicColumns
\* Fields of a describe result: one of each soap type, a compound field
\* and a part of it, two custom fields, a field with no name and one with
\* no soap type.
FieldPool ==
  {\* Name, its own compound field
   Field(Some(<<"N", "a", "m", "e">>), Some(<<"N", "a", "m", "e">>),
         Some(<<"xsd", "string">>)),
   Field(Some(<<"I", "d">>), Nil, Some(<<"tns", "ID">>)),
   \* OpenHour
   Field(Some(<<"O", "p", "e", "n", "H", "o", "u", "r">>), Nil,
         Some(<<"xsd", "time">>)),
   \* Birthdate
   Field(Some(<<"B", "i", "r", "t", "h", "d", "a", "t", "e">>), Nil,
         Some(<<"xsd", "date">>)),
   \* CreatedDate
   Field(Some(<<"C", "r", "e", "a", "t", "e", "d", "D", "a", "t", "e">>), Nil,
         Some(<<"xsd", "dateTime">>)),
   \* IsActive
   Field(Some(<<"I", "s", "A", "c", "t", "i", "v", "e">>), Nil,
         Some(<<"xsd", "boolean">>)),
   \* Revenue
   Field(Some(<<"R", "e", "v", "e", "n", "u", "e">>), Nil,
         Some(<<"xsd", "double">>)),
   \* Employees
   Field(Some(<<"E", "m", "p", "l", "o", "y", "e", "e", "s">>), Nil,
         Some(<<"xsd", "int">>)),
   \* BillingAddress, and BillingCity, which is a part of it
   Field(Some(<<"B", "i", "l", "l", "i", "n", "g",
                "A", "d", "d", "r", "e", "s", "s">>), Nil,
         Some(<<"urn", "address">>)),
   Field(Some(<<"B", "i", "l", "l", "i", "n", "g", "C", "i", "t", "y">>),
         Some(<<"B", "i", "l", "l", "i", "n", "g",
                "A", "d", "d", "r", "e", "s", "s">>),
         Some(<<"xsd", "string">>)),
   \* MyRating__c and score__c
   Field(Some(<<"M", "y", "R", "a", "t", "i", "n", "g", "_", "_", "c">>), Nil,
         Some(<<"xsd", "double">>)),
   Field(Some(<<"s", "c", "o", "r", "e", "_", "_", "c">>), Nil,
         Some(<<"anyType">>)),
   \* Legacy, with no soap type, and a field with no name
   Field(Some(<<"L", "e", "g", "a", "c", "y">>), Nil, Nil),
   Field(Nil, Nil, Some(<<"xsd", "string">>))}

\* The tables of an object are set up: its columns are made from the
\* describe result, which is absent for an object the remote has not.
DeriveColumns ==
  /\ applied.fn = "none"
  /\ \E convention \in NamingConventions :
       \/ applied' = [fn |-> "derive",
                      config |-> [NamingConvention |-> convention],
                      fields |-> <<>>,
                      described |-> FALSE,
                      result |-> dynamicColumns(
                                   Nil, [NamingConvention |-> convention])]
       \/ \E fields \in UNION {[1..n -> FieldPool] : n \in 0..MaxFields} :
            applied' = [fn |-> "derive",
                        config |-> [NamingConvention |-> convention],
                        fields |-> fields,
                        described |-> TRUE,
                        result |-> dynamicColumns(
                                     Some(fields),
                                     [NamingConvention |-> convention])]
  /\ UNCHANGED <<config, cache, sessions, expired, deletes, setFails, memo,
                 built, opsStarted, pc, stack, op, loc, ret, hist>>

\* ------------------------------------------------------- specifications
\* The steps of a call in progress.
Running(p) ==
  \/ ConnectGet(p)
  \/ ConnectAuth(p)
  \/ ConnectSet(p)
  \/ ReconnectStart(p)
  \/ ListConnected(p)
  \/ QueryFirst(p)
  \/ QueryReconnected(p)
  \/ QueryRetry(p)
  \/ ListPage(p)
  \/ GetConnected(p)
  \/ GetFirst(p)
  \/ GetProbe(p)
  \/ GetReconnected(p)
  \/ GetRetry(p)
  \/ GetDone(p)

Environment == \E s \in 1..sessions : Expire(s)

\* Configurations of the three methods with their companion fields, and one
\* with no credentials.
Only(fields) == [f \in ConfigFields |-> f \in fields]

ReadConfigs ==
  {Only({"url", "access_token"}),
   Only({"url", "username", "client_id", "private_key"}),
   Only({"url", "username", "password"}),
   Only({"url"})}

InitRead == Init /\ config \in ReadConfigs

\* Spec: one caller at a time runs list and point-lookup operations while
\* the remote expires sessions.
Next ==
  \/ Environment
  \/ \E p \in SeqProcs :
       \/ opsStarted < MaxOps /\ \E n \in 1..MaxPages : StartList(p, n)
       \/ opsStarted < MaxOps /\ StartGet(p)
       \/ Running(p)

Spec == InitRead /\ [][Next]_vars

\* SpecAuth: one caller at a time calls connect and reconnect, under every
\* configuration.
NextAuth ==
  \E p \in SeqProcs :
    \/ opsStarted < MaxAuthOps /\ StartConnect(p)
    \/ opsStarted < MaxAuthOps /\ StartReconnect(p)
    \/ ConnectGet(p)
    \/ ConnectAuth(p)
    \/ ConnectSet(p)
    \/ ReconnectStart(p)

SpecAuth == Init /\ [][NextAuth]_vars

\* SpecConc: two callers call connect and reconnect at the same time; the
\* steps of connectRaw (Get, the precedence chain, Set) and the Delete of
\* reconnect interleave freely, as nothing in the code serialises them.
NextConc ==
  \E p \in Procs :
    \/ opsStarted < MaxConcOps /\ StartConnect(p)
    \/ opsStarted < MaxConcOps /\ StartReconnect(p)
    \/ ConnectGet(p)
    \/ ConnectAuth(p)
    \/ ConnectSet(p)
    \/ ReconnectStart(p)

SpecConc == InitRead /\ [][NextConc]_vars


\* SpecOrg: two callers resolve the organization id at the same time.
NextOrg ==
  \E p \in Procs :
    \/ opsStarted < MaxOrgOps /\ getOrganizationId(p)
    \/ MemoizeGet(p)
    \/ MemoizeLock(p)
    \/ ConnectGet(p)
    \/ ConnectAuth(p)
    \/ ConnectSet(p)
    \/ OrgConnected(p)
    \/ OrgQuery(p)
    \/ MemoizeStore(p)

SpecOrg == InitRead /\ [][NextOrg]_vars

\* SpecCancel: one caller runs list operations and cancels them at any
\* point, while the remote expires sessions.
NextCancel ==
  \/ Environment
  \/ \E p \in SeqProcs :
       \/ opsStarted < MaxCancelOps /\ \E n \in 1..MaxPages : StartList(p, n)
       \/ Cancel(p)
       \/ ConnectGet(p)
       \/ ConnectAuth(p)
       \/ ConnectSet(p)
       \/ ReconnectStart(p)
       \/ ListConnected(p)
       \/ QueryFirst(p)
       \/ QueryReconnected(p)
       \/ QueryRetry(p)
       \/ ListPage(p)

SpecCancel == InitRead /\ [][NextCancel]_vars

\* SpecShared: two callers run one-page list operations at the same
\* time through the connection's one cache, while the remote expires
\* sessions.
NextShared ==
  \/ Environment
  \/ \E p \in Procs :
       \/ opsStarted < MaxSharedOps /\ StartList(p, 1)
       \/ ConnectGet(p)
       \/ ConnectAuth(p)
       \/ ConnectSet(p)
       \/ ReconnectStart(p)
       \/ ListConnected(p)
       \/ QueryFirst(p)
       \/ QueryReconnected(p)
       \/ QueryRetry(p)
       \/ ListPage(p)

SpecShared == InitRead /\ [][NextShared]_vars

\* SpecList: one caller runs list operations while the remote expires
\* sessions; the caller's goroutine keeps running and every request is
\* answered, so a step of the operation that can be taken is taken.
ListStep(p) ==
  \/ ConnectGet(p)
  \/ ConnectAuth(p)
  \/ ConnectSet(p)
  \/ ReconnectStart(p)
  \/ ListConnected(p)
  \/ QueryFirst(p)
  \/ QueryReconnected(p)
  \/ QueryRetry(p)
  \/ ListPage(p)

NextList ==
  \/ Environment
  \/ \E p \in SeqProcs :
       \/ opsStarted < MaxListOps /\ \E n \in 1..MaxPages : StartList(p, n)
       \/ ListStep(p)

SpecList ==
  /\ InitRead
  /\ [][NextList]_vars
  /\ WF_vars(\E p \in SeqProcs : ListStep(p))

\* SpecOrgExpiry: two callers resolve the organization id while the
\* remote expires sessions.
SpecOrgExpiry == InitRead /\ [][Environment \/ NextOrg]_vars

\* SpecQuals: buildQueryFromQuals applied to a qualifier map, a column
\* list and a type map.
InitQuals == Init /\ config = Only({"url", "username", "password"})

NextQuals == BuildQuery

SpecQuals == InitQuals /\ [][NextQuals]_vars

\* SpecNames: getSalesforceColumnName applied to a name and to its result.
SpecNames == InitQuals /\ [][ConvertName]_vars

\* SpecMerge: mergeTableColumns applied to a convention and two lists.
SpecMerge == InitQuals /\ [][MergeColumns]_vars

\* SpecDerive: dynamicColumns applied to a describe result.
SpecDerive == InitQuals /\ [][DeriveColumns]_vars

\* ------------------------------------------------------------ properties
AccessTokenConfigured == config["access_token"]

Events(p, kind) == SelectSeq(hist[p].log, LAMBDA e : e.kind = kind)

Count(p, kind) == Len(Events(p, kind))

CountIn(p, kind, c) ==
  Len(SelectSeq(hist[p].log, LAMBDA e : e.kind = kind /\ e.call = c))

LastEvent(p) == hist[p].log[Len(hist[p].log)]

\* Number of the first i-1 entries of a sequence of requests that succeeded.
OkBefore(qs, i) == Cardinality({j \in 1..(i - 1) : qs[j].resp = ErrNone})

ListSucceeded(p) ==
  op[p] = "list" /\ pc[p] = "done" /\ ret[p].err = ErrNone

\* C1: in a list operation every page request is for the first page not
\* yet obtained (a retry repeats the failed request, an emitted page is not
\* requested again), the consumer has received the records of the pages
\* emitted so far, each once and in page order, and when the operation
\* ends without error it has emitted the records of all pages and has
\* reconnected once per session-expiry answer.
C1_PagesOnceInOrder ==
  \A p \in Procs :
    op[p] = "list" =>
      LET qs == Events(p, "query")
          m == Count(p, "emit")
      IN /\ \A i \in 1..Len(qs) : qs[i].page = 1 + OkBefore(qs, i)
         /\ \A i \in 1..Len(qs) :
              qs[i].attempt = 2 =>
                /\ i > 1
                /\ qs[i - 1].attempt = 1
                /\ isSessionExpiredError(qs[i - 1].resp)
                /\ qs[i - 1].page = qs[i].page
         /\ hist[p].emitted = AllRecords(m)
         /\ \A k \in 1..m : Events(p, "emit")[k].page = k
         /\ ListSucceeded(p) =>
              /\ hist[p].emitted = AllRecords(loc[p].npages)
              /\ Count(p, "reconnect") =
                   Cardinality({i \in 1..Len(qs) :
                                  isSessionExpiredError(qs[i].resp)})

\* C1 witness: a list of two pages ended without error after only the
\* request for page 2 met an expired session; one reconnect was made.
C1_Witness ==
  \E p \in Procs :
    /\ ListSucceeded(p)
    /\ loc[p].npages = 2
    /\ Count(p, "reconnect") = 1
    /\ \E i \in 1..Count(p, "query") :
         /\ Events(p, "query")[i].page = 2
         /\ isSessionExpiredError(Events(p, "query")[i].resp)
    /\ hist[p].emitted = <<1, 2, 3, 4>>

\* C2: one call of queryWithRetry issues the query at most twice and calls
\* reconnect at most once; when the retry fails, also with another
\* session-expiry answer, the call returns that error.
C2_AtMostOneRetry ==
  \A p \in Procs :
    op[p] = "list" =>
      /\ \A c \in 1..hist[p].calls :
           /\ CountIn(p, "query", c) <= 2
           /\ CountIn(p, "reconnect", c) <= 1
      /\ (/\ hist[p].log # <<>>
          /\ LastEvent(p).kind = "query"
          /\ LastEvent(p).attempt = 2)
         => /\ pc[p] \in {"l_page", "done"}
            /\ pc[p] = "done" => LastEvent(p).resp # ErrNone
            /\ ret[p].err = LastEvent(p).resp
            /\ ret[p].client = LastEvent(p).sid

\* C2 witness: the retry through the new session met an expired session
\* again and the call has returned that error.
C2_Witness ==
  \E p \in Procs :
    /\ op[p] = "list"
    /\ pc[p] = "l_page"
    /\ LastEvent(p).kind = "query"
    /\ LastEvent(p).attempt = 2
    /\ isSessionExpiredError(LastEvent(p).resp)
    /\ ret[p].err = ErrRemoteExpired
    /\ CountIn(p, "reconnect", hist[p].calls) = 1

\* C3: once a reconnect has succeeded in a list operation, the first
\* attempt of every later page request goes through the session that
\* reconnect returned.
C3_LaterPagesUseNewSession ==
  \A p \in Procs :
    (op[p] = "list" /\ pc[p] = "q_first" /\ hist[p].fresh # NoSession)
      => loc[p].arg = hist[p].fresh

\* The error reconnect returned in a point lookup whose reconnect failed.
ReconnectError(p) ==
  IF AccessTokenConfigured THEN ErrCannotRefresh
  ELSE Events(p, "auth")[Count(p, "auth")].resp

GetReturned(p) == op[p] = "get" /\ pc[p] = "h_got"

ProbeExpired(p) ==
  /\ Count(p, "probe") >= 1
  /\ isSessionExpiredError(Events(p, "probe")[1].resp)

\* C4: getWithRetry never probes or reconnects twice and never issues more
\* than two get-by-id requests; when the probe met an expired session it
\* has called reconnect once and then either returns the reconnect error
\* after the one get, or has repeated the get once through the new session
\* and returns what that get gave, with no error.
C4_LookupRetriedOnce ==
  \A p \in Procs :
    op[p] = "get" =>
      /\ Count(p, "probe") <= 1
      /\ Count(p, "reconnect") <= 1
      /\ Count(p, "get") <= 2
      /\ (GetReturned(p) /\ ProbeExpired(p)) =>
           /\ Count(p, "reconnect") = 1
           /\ IF hist[p].fresh = NoSession
                THEN /\ ret[p].err = ReconnectError(p)
                     /\ ret[p].err # ErrNone
                     /\ ret[p].val = 0
                     /\ Count(p, "get") = 1
                ELSE /\ Count(p, "get") = 2
                     /\ Events(p, "get")[2].sid = hist[p].fresh
                     /\ Events(p, "get")[2].sid # Events(p, "get")[1].sid
                     /\ LastEvent(p) = Events(p, "get")[2]
                     /\ ret[p].val = Events(p, "get")[2].page
                     /\ ret[p].client = hist[p].fresh
                     /\ ret[p].err = ErrNone

\* C4 witness: the probe met an expired session, reconnect succeeded and
\* the repeated get through the new session gave absence again.
C4_Witness ==
  \E p \in Procs :
    /\ GetReturned(p)
    /\ ProbeExpired(p)
    /\ hist[p].fresh # NoSession
    /\ Count(p, "get") = 2
    /\ ret[p].val = 0
    /\ ret[p].err = ErrNone

\* C5: when get-by-id gives a record no probe is issued; when it gives
\* absence and the probe succeeds or fails with an error that is no
\* session-expiry signal, getWithRetry returns absence with no error, has
\* not reconnected and has left the cache as it found it; it returns an
\* error only when reconnect failed.
C5_LookupFailsOpen ==
  \A p \in Procs :
    GetReturned(p) =>
      /\ Events(p, "get")[1].page # 0 =>
           /\ Count(p, "probe") = 0
           /\ ret[p].val = Events(p, "get")[1].page
           /\ ret[p].err = ErrNone
      /\ (Count(p, "probe") = 1 /\ ~ProbeExpired(p)) =>
           /\ ret[p].val = 0
           /\ ret[p].err = ErrNone
           /\ ret[p].client = loc[p].arg
           /\ Count(p, "reconnect") = 0
           /\ Count(p, "delete") = 0
           /\ cache = hist[p].cacheAtCall
      /\ ret[p].err # ErrNone =>
           /\ Count(p, "reconnect") = 1
           /\ hist[p].fresh = NoSession
           /\ ret[p].err = ReconnectError(p)

\* C5 witness: the get gave absence, the probe failed with an error that
\* is no expiry signal, and the lookup returned absence without error.
C5_Witness ==
  \E p \in Procs :
    /\ GetReturned(p)
    /\ Count(p, "probe") = 1
    /\ Events(p, "probe")[1].resp = ErrRemoteOther
    /\ ret[p].val = 0
    /\ ret[p].err = ErrNone
    /\ cache # NoSession

ReconnectReturned(p) == op[p] = "reconnect" /\ pc[p] = "done"

\* C6: under access_token auth reconnect returns the cannot-refresh error
\* and no session, having deleted nothing, attempted no authentication and
\* sent nothing to the token endpoint.
C6_AccessTokenCannotRefresh ==
  \A p \in Procs :
    (AccessTokenConfigured /\ Count(p, "reconnect") >= 1) =>
      /\ ReconnectReturned(p)
      /\ ret[p] = [client |-> NoSession, val |-> 0, err |-> ErrCannotRefresh]
      /\ ~isSessionExpiredError(ret[p].err)
      /\ Len(hist[p].log) = 1
      /\ Count(p, "auth") = 0
      /\ \A i \in 1..Len(hist[p].log) : ~hist[p].log[i].net
      /\ cache = hist[p].cacheAtCall

\* C6 witness: reconnect has returned under access_token auth while the
\* cache holds the session an earlier connect built from the token.
C6_Witness ==
  \E p \in Procs :
    /\ AccessTokenConfigured
    /\ ReconnectReturned(p)
    /\ cache # NoSession
    /\ sessions = 1

NoKey == ~config["private_key"] /\ ~config["private_key_file"]

\* C7: every authentication attempt is the one the precedence over the
\* non-empty fields selects (access_token, else a private key or key file,
\* else username and password, else the no-credentials error), a call
\* attempts at most one method, and on an empty cache exactly one.
C7_Precedence ==
  \A p \in Procs :
    /\ Count(p, "auth") <= 1
    /\ (pc[p] = "done" /\ Count(p, "hit") = 0
          /\ (op[p] = "connect" \/ Count(p, "delete") = 1))
         => Count(p, "auth") = 1
    /\ \A i \in 1..Count(p, "auth") :
         LET e == Events(p, "auth")[i]
         IN /\ config["access_token"] =>
                 /\ e.method = "access_token"
                 /\ e.resp \in {ErrNone, ErrAccessTokenUrl, ErrCreateClient}
            /\ (~config["access_token"] /\ ~NoKey) =>
                 /\ e.method = "jwt"
                 /\ e.resp \in {ErrNone, ErrJwtUrl, ErrJwtUsername,
                                ErrJwtClientId, ErrKeyFile, ErrJwtLogin,
                                ErrCreateClient}
            /\ (~config["access_token"] /\ NoKey
                  /\ config["username"] /\ config["password"]) =>
                 /\ e.method = "password"
                 /\ e.resp \in {ErrNone, ErrPasswordUrl, ErrPasswordLogin,
                                ErrCreateClient}
            /\ (~config["access_token"] /\ NoKey
                  /\ ~(config["username"] /\ config["password"])) =>
                 /\ e.method = "none"
                 /\ e.resp = ErrNoAuth
                 /\ e.sid = NoSession

\* C7 witness: with access token, private key, username and password all
\* configured, connect on an empty cache has built its session from the
\* access token.
C7_Witness ==
  \E p \in Procs :
    /\ op[p] = "connect"
    /\ pc[p] = "done"
    /\ config["access_token"] /\ config["private_key"]
    /\ config["username"] /\ config["password"] /\ config["url"]
    /\ Count(p, "auth") = 1
    /\ Events(p, "auth")[1].method = "access_token"
    /\ ret[p].err = ErrNone
    /\ ret[p].client = 1

ConnectHit(p) == hist[p].log # <<>> /\ LastEvent(p).kind = "hit"

AuthFailed(p) ==
  /\ hist[p].log # <<>>
  /\ LastEvent(p).kind = "auth"
  /\ LastEvent(p).resp # ErrNone

\* C9: when the authentication of a connect call fails, connect returns
\* that error and no session, nothing was stored, and the cache is what it
\* was when the call began: empty, so that the next connect authenticates.
C9_FailureNotCached ==
  \A p \in Procs :
    AuthFailed(p) =>
      /\ pc[p] = "done"
      /\ ret[p].err = LastEvent(p).resp
      /\ ret[p].client = NoSession
      /\ LastEvent(p).sid = NoSession
      /\ Count(p, "store") = 0
      /\ cache = hist[p].cacheAtConnect
      /\ cache = NoSession

\* C9 witness: a second connect has attempted authentication, and failed,
\* after the first created no session; the cache is empty.
C9_Witness ==
  \E p \in Procs :
    /\ op[p] = "connect"
    /\ AuthFailed(p)
    /\ LastEvent(p).resp = ErrJwtLogin
    /\ opsStarted = 2
    /\ sessions = 0
    /\ cache = NoSession

\* C10 as stated: after reconnect under another method than access_token,
\* the cache holds the returned new session if authentication succeeded
\* and no session if it failed.
C10_CacheHoldsNewSession ==
  \A p \in Procs :
    (ReconnectReturned(p) /\ ~AccessTokenConfigured) =>
      IF ret[p].err = ErrNone
        THEN ret[p].client # NoSession /\ cache = ret[p].client
        ELSE cache = NoSession

\* C10 amended: under another method than access_token, reconnect deletes
\* the cached session and then authenticates; on success it returns the
\* session just created, which the cache then holds unless storing it
\* failed, in which case the cache is empty; on failure it returns the
\* error and the cache is empty; the session that was cached before is in
\* neither case cached or returned.
C10_ReconnectReplacesSession ==
  \A p \in Procs :
    (ReconnectReturned(p) /\ ~AccessTokenConfigured) =>
      LET log == hist[p].log
      IN /\ Len(log) >= 3
         /\ log[1].kind = "reconnect"
         /\ log[2].kind = "delete"
         /\ log[3].kind = "auth"
         /\ cache # log[2].sid \/ log[2].sid = NoSession
         /\ IF ret[p].err = ErrNone
              THEN /\ Len(log) = 4
                   /\ log[4].kind = "store"
                   /\ ret[p].client = log[3].sid
                   /\ ret[p].client = sessions
                   /\ ret[p].client # log[2].sid
                   /\ cache = IF log[4].resp = ErrNone THEN ret[p].client
                              ELSE NoSession
              ELSE /\ Len(log) = 3
                   /\ ret[p].err = log[3].resp
                   /\ ret[p].client = NoSession
                   /\ cache = NoSession

\* C10 witness: reconnect has replaced the session an earlier connect
\* cached by a new one, which it returned.
C10_Witness ==
  \E p \in Procs :
    /\ ReconnectReturned(p)
    /\ ~AccessTokenConfigured
    /\ ret[p].err = ErrNone
    /\ hist[p].log[2].sid = 1
    /\ ret[p].client = 2
    /\ cache = 2

\* The positions in p's log of first attempts that were answered with a
\* session-expiry signal and for which reconnect has been entered.
Detections(p) ==
  {i \in 1..(Len(hist[p].log) - 1) :
     /\ hist[p].log[i].kind \in {"query", "probe"}
     /\ hist[p].log[i].attempt = 1
     /\ isSessionExpiredError(hist[p].log[i].resp)}

\* C11 as stated: under every authentication method, once the executor
\* has acted on a session-expiry signal, the session that gave the signal
\* is not in the cache.
C11_ExpiredSessionRemoved ==
  \A p \in Procs :
    \A i \in Detections(p) : cache # hist[p].log[i].sid

\* C11 amended: when the first attempt of an executor call is answered
\* with a session-expiry signal, reconnect is entered next; under another
\* method than access_token it deletes the cache entry, so that the cache
\* no longer holds the expired session and no later cache hit,
\* authentication or store of the operation yields it; under access_token
\* nothing is deleted and the cache is left as the call found it.
C11_RemovedUnlessAccessToken ==
  \A p \in Procs :
    \A i \in Detections(p) :
      LET log == hist[p].log
          s == log[i].sid
      IN /\ log[i + 1].kind = "reconnect"
         /\ IF AccessTokenConfigured
              THEN /\ Count(p, "delete") = 0
                   /\ cache = hist[p].cacheAtCall
              ELSE /\ Len(log) >= i + 2
                   /\ log[i + 2].kind = "delete"
                   /\ cache # s
                   /\ \A j \in (i + 1)..Len(log) :
                        log[j].kind \in {"hit", "auth", "store"}
                          => log[j].sid # s

\* C11 witness: under JWT or password auth the cached session 1 answered
\* with an expiry signal, was deleted from the cache, and the cache now
\* holds session 2.
C11_Witness ==
  \E p \in Procs :
    /\ ~AccessTokenConfigured
    /\ \E i \in Detections(p) :
         /\ hist[p].log[i].sid = 1
         /\ hist[p].log[i + 2].sid = 1
    /\ cache = 2

\* C12: at no time do two callers each hold a session of their own making:
\* of the calls that find the cache empty only one authenticates and
\* creates a session, and once no call is in progress every caller that
\* was given a session since the last invalidation holds the cached one.
C12_OneLiveSession ==
  \A p, q \in Procs :
    p # q =>
      /\ ~(/\ pc[p] = "c_set"
           /\ pc[q] = "c_set"
           /\ loc[p].made # loc[q].made)
      /\ (/\ deletes = 0
          /\ setFails = 0
          /\ pc[p] = "done" /\ ret[p].client # NoSession
          /\ pc[q] = "done" /\ ret[q].client # NoSession)
         => ret[p].client = ret[q].client

\* The callers inside the guarded part of the memoized function: the call
\* of getOrganizationIdUncached and the store of its result.
InLookup ==
  {p \in Procs :
     /\ op[p] = "orgid"
     /\ pc[p] \in {"c_get", "c_auth", "c_set", "o_connected", "o_query",
                   "m_store"}}

\* The errors of the connect and query attempts of p's current lookup.
LookupErrors(p) ==
  {hist[p].log[i].resp : i \in
     {j \in 1..Len(hist[p].log) :
        /\ hist[p].log[j].kind \in {"auth", "orgquery"}
        /\ hist[p].log[j].resp # ErrNone}}

OrgReturned(p) == op[p] = "orgid" /\ pc[p] = "done"

\* C13: at most one caller at a time is inside the organization-id lookup;
\* once a value is memoized no caller is inside the lookup any more, and
\* every call that returned without error returned the memoized value; a
\* lookup whose connect or query failed returns that error and does not
\* fill the memoized entry.
C13_SingleFlightMemoized ==
  /\ Cardinality(InLookup) <= 1
  /\ memo.present => InLookup = {}
  /\ \A p \in Procs :
       /\ (OrgReturned(p) /\ ret[p].err = ErrNone)
            => memo.present /\ ret[p].val = memo.value
       /\ LookupErrors(p) # {}
            => /\ memo.present => memo.by # p
               /\ OrgReturned(p) => ret[p].err \in LookupErrors(p)

\* C13 witness: one caller is querying the remote for the organization id
\* while the other, which also missed the memoized entry, waits for it.
C13_Witness ==
  \E p, q \in Procs :
    /\ p # q
    /\ op[p] = "orgid" /\ pc[p] = "o_query" /\ memo.holder = p
    /\ op[q] = "orgid" /\ pc[q] = "m_lock"
    /\ ~memo.present

\* The errors that name a companion field missing from the branch that the
\* configuration selects: none if the branch is complete or none is
\* selected.
MissingCompanion ==
  IF config["access_token"]
    THEN IF config["url"] THEN {} ELSE {ErrAccessTokenUrl}
  ELSE IF ~NoKey
    THEN (IF config["url"] THEN {} ELSE {ErrJwtUrl})
           \cup (IF config["username"] THEN {} ELSE {ErrJwtUsername})
           \cup (IF config["client_id"] THEN {} ELSE {ErrJwtClientId})
  ELSE IF config["username"] /\ config["password"]
    THEN IF config["url"] THEN {} ELSE {ErrPasswordUrl}
  ELSE {}

\* C14: when the selected branch lacks a companion field, every
\* authentication attempt ends in that branch with an error naming a
\* missing field, without a request to the token endpoint and without a
\* session; the call returns that error, and no session is ever created
\* or cached, whatever the other fields are.
C14_CompanionMissingFailsFast ==
  MissingCompanion # {} =>
    /\ sessions = 0
    /\ cache = NoSession
    /\ \A p \in Procs :
         /\ Count(p, "hit") = 0
         /\ Count(p, "store") = 0
         /\ \A i \in 1..Count(p, "auth") :
              LET e == Events(p, "auth")[i]
              IN /\ e.resp \in MissingCompanion
                 /\ ~e.net
                 /\ e.sid = NoSession
         /\ (pc[p] = "done" /\ Count(p, "auth") > 0) =>
              /\ ret[p].err = LastEvent(p).resp
              /\ ret[p].err \in MissingCompanion
              /\ ret[p].client = NoSession

\* C14 witness: a private key is configured without client_id while url,
\* username and password are all set; connect has returned the JWT
\* branch's client_id error and the password method was not tried.
C14_Witness ==
  \E p \in Procs :
    /\ config = Only({"private_key", "url", "username", "password"})
    /\ op[p] = "connect" /\ pc[p] = "done"
    /\ ret[p].err = ErrJwtClientId
    /\ Count(p, "auth") = 1
    /\ sessions = 0

\* C15: when a refresh token is configured and no access token is, every
\* authentication attempt of connect and reconnect goes through the
\* refresh-token grant, never through the JWT or password branch or the
\* no-credentials error.
C15_RefreshTokenPreferred ==
  (config["refresh_token"] /\ ~config["access_token"]) =>
    \A p \in Procs :
      \A i \in 1..Count(p, "auth") :
        Events(p, "auth")[i].method = "refresh_token"

\* The entries that call c of queryWithRetry wrote to p's log.
CallLog(p, c) == SelectSeq(hist[p].log, LAMBDA e : e.call = c)

KindsIn(ev) == {ev[i].kind : i \in 1..Len(ev)}

Retried(ev) == \E i \in 1..Len(ev) : ev[i].kind = "query" /\ ev[i].attempt = 2

\* The authentication of the reconnect in a call's log, if there was one.
AuthsIn(ev) == SelectSeq(ev, LAMBDA e : e.kind = "auth")

\* C16: in every call of queryWithRetry the query is issued a second time
\* only after the first attempt was answered with the session-expiry
\* signal and reconnect then authenticated; after a first-attempt error
\* that is no expiry signal the call has made no reconnect, deleted and
\* stored nothing, left the cache as it found it and returned that error;
\* after a reconnect that failed there is no second attempt and the call
\* returned the reconnect error.
C16_RetryOnlyAfterReconnect ==
  \A p \in Procs :
    op[p] = "list" =>
      \A c \in 1..hist[p].calls :
        LET ev == CallLog(p, c)
            returned == c < hist[p].calls \/ pc[p] \in {"l_page", "done"}
            latest == c = hist[p].calls
        IN Len(ev) > 0 =>
             /\ ev[1].kind = "query" /\ ev[1].attempt = 1
             /\ Retried(ev) =>
                  /\ ev[1].resp = ErrRemoteExpired
                  /\ "reconnect" \in KindsIn(ev)
                  /\ Len(AuthsIn(ev)) = 1
                  /\ AuthsIn(ev)[1].resp = ErrNone
             /\ ev[1].resp = ErrRemoteOther =>
                  /\ KindsIn(ev) = {"query"}
                  /\ Len(ev) = 1
                  /\ latest => /\ returned
                               /\ ret[p].err = ErrRemoteOther
                               /\ cache = hist[p].cacheAtCall
             /\ (/\ "reconnect" \in KindsIn(ev)
                 /\ \/ AccessTokenConfigured
                    \/ /\ Len(AuthsIn(ev)) = 1
                       /\ AuthsIn(ev)[1].resp # ErrNone)
                => /\ ~Retried(ev)
                   /\ (latest /\ returned) =>
                        ret[p].err = IF AccessTokenConfigured
                                       THEN ErrCannotRefresh
                                       ELSE AuthsIn(ev)[1].resp

\* C16 witness: the request for page 2 was answered with an error that is
\* no expiry signal; the list ended with that error, without reconnect,
\* and session 1 is still cached.
C16_Witness ==
  \E p \in Procs :
    /\ op[p] = "list" /\ pc[p] = "done"
    /\ hist[p].calls = 2
    /\ CallLog(p, 2)[1].resp = ErrRemoteOther
    /\ ret[p].err = ErrRemoteOther
    /\ Count(p, "reconnect") = 0
    /\ cache = 1

\* The last call had one column and one qualifier with a value, entered
\* under the column's name.
OneQualCall ==
  /\ built.called
  /\ Len(built.tableColumns) = 1
  /\ DOMAIN built.equalQuals = {built.tableColumns[1].Name}
  /\ built.equalQuals[built.tableColumns[1].Name].Name
       = built.tableColumns[1].Name
  /\ Len(built.equalQuals[built.tableColumns[1].Name].Quals) = 1
  /\ built.equalQuals[built.tableColumns[1].Name].Quals[1].Value.kind # "nil"

TheColumn == built.tableColumns[1]

TheQual == built.equalQuals[TheColumn.Name].Quals[1]

\* C17: for the boolean column is_active a qualifier with operator =
\* compiles to "IsActive = TRUE" and one with operator <> to
\* "IsActive = FALSE", whatever its value; any other operator gives no
\* clause.
C17_BooleanClause ==
  (OneQualCall /\ TheColumn = Column(IsActiveN, "BOOL")) =>
    built.result = CASE TheQual.Operator = "=" -> "IsActive = TRUE"
                     [] TheQual.Operator = "<>" -> "IsActive = FALSE"
                     [] OTHER -> ""

\* C17 witness: is_active <> false was compiled to "IsActive = FALSE".
C17_Witness ==
  /\ OneQualCall
  /\ TheColumn = Column(IsActiveN, "BOOL")
  /\ TheQual = Qual("<>", BoolValue(FALSE))
  /\ built.result = "IsActive = FALSE"

\* The literals the two instants are expected to be written as.
DateLiteral(t) ==
  CASE t = MorningOfJan15 -> "2024-01-15"
    [] t = MidnightOfJun20 -> "2024-06-20"

DateTimeLiteral(t) ==
  CASE t = MorningOfJan15 -> "2024-01-15T10:30:00Z"
    [] t = MidnightOfJun20 -> "2024-06-20T00:00:00Z"

DeclaredAs(name) ==
  IF name \in DOMAIN built.salesforceCols THEN built.salesforceCols[name]
  ELSE ""

\* C18: for the timestamp column created_date and a qualifier whose value
\* is an instant, the operators =, >, >=, <= and < give
\* "CreatedDate <op> <literal>", where the literal is YYYY-MM-DD when the
\* type map declares the column as date and YYYY-MM-DDTHH:MM:SSZ under
\* every other declaration or none, whatever the time of day of the
\* instant; any other operator gives no clause.
C18_TimestampClause ==
  (/\ OneQualCall
   /\ TheColumn = Column(CreatedDateN, "TIMESTAMP")
   /\ TheQual.Value.kind = "timestamp") =>
    built.result =
      IF TheQual.Operator \in {"=", ">", ">=", "<=", "<"}
        THEN "CreatedDate " \o TheQual.Operator \o " " \o
               (IF DeclaredAs(CreatedDateN) = "date"
                  THEN DateLiteral(TheQual.Value.time)
                  ELSE DateTimeLiteral(TheQual.Value.time))
        ELSE ""

\* C18 witness: an instant at 10:30:00 on a column declared date was
\* written as a date only.
C18_Witness ==
  /\ OneQualCall
  /\ TheColumn = Column(CreatedDateN, "TIMESTAMP")
  /\ DeclaredAs(CreatedDateN) = "date"
  /\ TheQual = Qual(">=", TimestampValue(MorningOfJan15))
  /\ built.result = "CreatedDate >= 2024-01-15"

\* The qualifiers, columns and type map of the last call are those of a
\* call with several columns.
ManyColumnCall ==
  /\ built.called
  /\ DOMAIN built.salesforceCols = DOMAIN DeclaredTypes
  /\ \A i \in 1..Len(built.tableColumns) :
       built.tableColumns[i] \in ListedColumns
  /\ \A n \in DOMAIN built.equalQuals :
       /\ n \in QualNames
       /\ built.equalQuals[n].Name = n
       /\ \A i \in 1..Len(built.equalQuals[n].Quals) :
            \E k \in 1..2 : built.equalQuals[n].Quals[i] = SampleQuals(n)[k]

\* The clause each sample qualifier of a listed column is expected to give.
ClauseText(n, qual) ==
  CASE n = NameN /\ qual = SampleQuals(NameN)[1] -> "Name = 'Acme'"
    [] n = NameN /\ qual = SampleQuals(NameN)[2] ->
         "Name NOT IN ('Acme','Globex')"
    [] n = IsActiveN /\ qual = SampleQuals(IsActiveN)[1] -> "IsActive = TRUE"
    [] n = IsActiveN /\ qual = SampleQuals(IsActiveN)[2] -> "IsActive = FALSE"
    [] n = CreatedDateN /\ qual = SampleQuals(CreatedDateN)[1] ->
         "CreatedDate >= 2024-01-15T10:30:00Z"
    [] n = CreatedDateN /\ qual = SampleQuals(CreatedDateN)[2] ->
         "CreatedDate < 2024-06-20T00:00:00Z"

\* The expected clauses of the columns of a list, column by column.
RECURSIVE ExpectedClauses(_)
ExpectedClauses(cols) ==
  IF cols = <<>> THEN <<>>
  ELSE LET n == Head(cols).Name
       IN (IF n \in DOMAIN built.equalQuals
             THEN [i \in 1..Len(built.equalQuals[n].Quals) |->
                     ClauseText(n, built.equalQuals[n].Quals[i])]
             ELSE <<>>)
            \o ExpectedClauses(Tail(cols))

\* The expected clauses with " AND " between them.
RECURSIVE AndOf(_)
AndOf(clauses) ==
  IF clauses = <<>> THEN ""
  ELSE IF Len(clauses) = 1 THEN clauses[1]
  ELSE clauses[1] \o " AND " \o AndOf(Tail(clauses))

QuotedText(value) ==
  CASE value = StringValue("Acme") -> "'Acme'"
    [] value = StringValue("O'Neil") -> "'O'Neil'"
    [] value = ListValue(<<"Acme", "Globex">>) -> "('Acme','Globex')"
    [] value = ListValue(<<"Globex", "Acme">>) -> "('Globex','Acme')"
    [] OTHER -> ""

\* C20: for the text column name, a scalar text value gives
\* "Name = '<v>'" for = and "Name != '<v>'" for <>, a list gives
\* "Name IN ('a','b')" for = and "Name NOT IN ('a','b')" for <> with the
\* values in list order, an empty list gives no clause, and any other
\* operator gives no clause; a quote in the value is written as it is.
C20_TextClause ==
  (/\ OneQualCall
   /\ TheColumn = Column(NameN, "STRING")
   /\ TheQual.Value.kind \in {"string", "list"}) =>
    built.result =
      IF TheQual.Value = ListValue(<<>>) THEN ""
      ELSE CASE TheQual.Operator = "=" /\ TheQual.Value.kind = "string" ->
                  "Name = " \o QuotedText(TheQual.Value)
             [] TheQual.Operator = "<>" /\ TheQual.Value.kind = "string" ->
                  "Name != " \o QuotedText(TheQual.Value)
             [] TheQual.Operator = "=" /\ TheQual.Value.kind = "list" ->
                  "Name IN " \o QuotedText(TheQual.Value)
             [] TheQual.Operator = "<>" /\ TheQual.Value.kind = "list" ->
                  "Name NOT IN " \o QuotedText(TheQual.Value)
             [] OTHER -> ""

\* C20 witness: name <> the list (Globex, Acme) was compiled to NOT IN with
\* the values in that order.
C20_Witness ==
  /\ OneQualCall
  /\ TheColumn = Column(NameN, "STRING")
  /\ TheQual = Qual("<>", ListValue(<<"Globex", "Acme">>))
  /\ built.result = "Name NOT IN ('Globex','Acme')"


\* --------------------------------------------------------------- C21
NameConverted == applied.fn = "name"

EndsInCustomSuffix(cs) ==
  /\ Len(cs) >= 3
  /\ cs[Len(cs) - 2] = "_" /\ cs[Len(cs) - 1] = "_" /\ cs[Len(cs)] = "c"

Capital(c) == \E i \in 1..Len(UpperCase) : UpperCase[i] = c

Small(c) == \E i \in 1..Len(LowerCase) : LowerCase[i] = c

CapitalOf(c) ==
  IF Small(c) THEN UpperCase[CHOOSE i \in 1..Len(LowerCase) : LowerCase[i] = c]
  ELSE c

\* The name split on "_", the first character of each segment made a
\* capital, the segments put together again.
RECURSIVE SegmentsCapitalized(_, _)
SegmentsCapitalized(cs, first) ==
  IF cs = <<>> THEN <<>>
  ELSE IF Head(cs) = "_" THEN SegmentsCapitalized(Tail(cs), TRUE)
  ELSE <<IF first THEN CapitalOf(Head(cs)) ELSE Head(cs)>>
         \o SegmentsCapitalized(Tail(cs), FALSE)

NoUnderscore(cs) == \A i \in 1..Len(cs) : cs[i] # "_"

SmallSnake(cs) == \A i \in 1..Len(cs) : Small(cs[i]) \/ cs[i] = "_"

CapitalPair(cs) ==
  \E i \in 1..(Len(cs) - 1) : Capital(cs[i]) /\ Capital(cs[i + 1])

Merged == applied.fn = "merge"

UnderApiNative == applied.config.NamingConvention = "api_native"

Among(col, cols) == \E i \in 1..Len(cols) : cols[i] = col

\* C22: under api_native with dynamic columns the result is the dynamic
\* columns, in their order, and none of the static columns; with no
\* dynamic column the result is the static columns, under every
\* convention.
C22_NativeReturnsDerived ==
  Merged =>
    /\ (UnderApiNative /\ applied.dynamicColumns # <<>>) =>
         /\ applied.result = applied.dynamicColumns
         /\ \A i \in 1..Len(applied.result) :
              ~Among(applied.result[i], applied.staticColumns)
    /\ applied.dynamicColumns = <<>> =>
         applied.result = applied.staticColumns

\* Under api_native, name and phone were static and name and address
\* dynamic: the result is the two dynamic columns.
C22_Witness ==
  /\ Merged
  /\ UnderApiNative
  /\ applied.staticColumns = <<Column(NameN, "STRING"), Column(PhoneN, "STRING")>>
  /\ applied.dynamicColumns = <<Column(NameN, "JSON"), Column(AddressN, "STRING")>>
  /\ applied.result = <<Column(NameN, "JSON"), Column(AddressN, "STRING")>>

\* --------------------------------------------------------------- C23
NamedAs(col, cols) == \E i \in 1..Len(cols) : cols[i].Name = col.Name

\* The columns of cols, in order, that no column of others is named as.
RECURSIVE NotNamedIn(_, _)
NotNamedIn(cols, others) ==
  IF cols = <<>> THEN <<>>
  ELSE (IF NamedAs(Head(cols), others) THEN <<>> ELSE <<Head(cols)>>)
         \o NotNamedIn(Tail(cols), others)

NoNameTwice(cols) ==
  \A i, j \in 1..Len(cols) : cols[i].Name = cols[j].Name => i = j

StaticThenNewDynamic ==
  applied.result
    = applied.staticColumns
        \o NotNamedIn(applied.dynamicColumns, applied.staticColumns)

\* C23: under a convention other than api_native the result
\* is the static columns in order, then the dynamic columns, in order,
\* that no static column is named as; and no name is in the result twice.
C23_MergedWithoutDuplicates ==
  (Merged /\ ~UnderApiNative) =>
    /\ StaticThenNewDynamic
    /\ NoNameTwice(applied.result)


\* --------------------------------------------------------------- C24
Derived == applied.fn = "derive"

\* The fields a column is made for, in order.
RECURSIVE KeptFields(_)
KeptFields(fields) ==
  IF fields = <<>> THEN <<>>
  ELSE LET f == Head(fields)
           shadow == Len(f.compoundFieldName) = 1
                       /\ f.compoundFieldName # f.name
       IN (IF Len(f.name) = 1 /\ Len(f.soapType) = 1 /\ ~shadow
             THEN <<f>> ELSE <<>>)
            \o KeptFields(Tail(fields))

KindOf(f) == f.soapType[1][Len(f.soapType[1])]

SemanticType(kind) ==
  IF kind \in {"string", "ID", "time"} THEN "STRING"
  ELSE IF kind \in {"date", "dateTime"} THEN "TIMESTAMP"
  ELSE IF kind = "boolean" THEN "BOOL"
  ELSE IF kind = "double" THEN "DOUBLE"
  ELSE IF kind = "int" THEN "INT"
  ELSE "JSON"

FilterOperators(type) ==
  IF type \in {"STRING", "BOOL"} THEN {"=", "<>"}
  ELSE IF type \in {"TIMESTAMP", "INT", "DOUBLE"}
    THEN {"=", ">", ">=", "<=", "<"}
  ELSE {}

\* The columns after the first, which is the organization's.
FieldCols == Tail(applied.result.cols)

\* The names of the columns that are not JSON, in order.
RECURSIVE FilterableNames(_)
FilterableNames(cols) ==
  IF cols = <<>> THEN <<>>
  ELSE (IF Head(cols).Type = "JSON" THEN <<>> ELSE <<Head(cols).Name>>)
         \o FilterableNames(Tail(cols))

TypeOfColumn(name) ==
  (CHOOSE col \in {FieldCols[i] : i \in 1..Len(FieldCols)} :
     col.Name = name).Type

\* C24: a column is made for each field, of the type the table gives
\* for the field's kind (JSON for every kind not in the table); there is
\* one key column, in order, for each column that is not JSON, none for
\* a JSON column, with the operators =, <> for STRING and BOOL and
\* =, >, >=, <=, < for TIMESTAMP, INT and DOUBLE; every key column is named
\* as a column of the list.
C24_TypesAndOperators ==
  (Derived /\ applied.described) =>
    LET kept == KeptFields(applied.fields)
        keys == applied.result.keyColumns
    IN /\ Len(FieldCols) = Len(kept)
       /\ \A k \in 1..Len(kept) :
            FieldCols[k].Type = SemanticType(KindOf(kept[k]))
       /\ [i \in 1..Len(keys) |-> keys[i].Name] = FilterableNames(FieldCols)
       /\ \A i \in 1..Len(keys) :
            /\ \E k \in 1..Len(applied.result.cols) :
                 applied.result.cols[k].Name = keys[i].Name
            /\ {keys[i].Operators[j] : j \in 1..Len(keys[i].Operators)}
                 = FilterOperators(TypeOfColumn(keys[i].Name))
            /\ Len(keys[i].Operators)
                 = Cardinality(FilterOperators(TypeOfColumn(keys[i].Name)))

\* With no convention set, columns were made for IsActive (boolean) and
\* BillingAddress (address): is_active BOOL with the key column =, <>,
\* and billing_address JSON with no key column.
C24_Witness ==
  /\ Derived
  /\ applied.config.NamingConvention = "nil"
  /\ Len(applied.fields) = 2
  /\ applied.fields[1].name = <<<<"I", "s", "A", "c", "t", "i", "v", "e">>>>
  /\ applied.fields[2].name = <<<<"B", "i", "l", "l", "i", "n", "g",
                               "A", "d", "d", "r", "e", "s", "s">>>>
  /\ applied.result.cols
       = <<Column(OrganizationIdN, "STRING"), Column(IsActiveN, "BOOL"),
           Column(<<"b", "i", "l", "l", "i", "n", "g", "_",
                    "a", "d", "d", "r", "e", "s", "s">>, "JSON")>>
  /\ Len(applied.result.keyColumns) = 1
  /\ applied.result.keyColumns[1].Name = IsActiveN
  /\ applied.result.keyColumns[1].Operators = <<"=", "<>">>

\* --------------------------------------------------------------- C25
RECURSIVE Lowered(_)
Lowered(cs) ==
  IF cs = <<>> THEN <<>>
  ELSE <<IF Capital(Head(cs))
           THEN LowerCase[CHOOSE i \in 1..Len(UpperCase) :
                            UpperCase[i] = Head(cs)]
           ELSE Head(cs)>> \o Lowered(Tail(cs))

\* C25 (as stated): the column of a field whose name ends in __c has
\* the field's name, character for character, under every convention.
C25_CustomNameKept ==
  (Derived /\ applied.described) =>
    LET kept == KeptFields(applied.fields)
    IN \A k \in 1..Len(kept) :
         (k <= Len(FieldCols) /\ EndsInCustomSuffix(kept[k].name[1])) =>
           FieldCols[k].Name = kept[k].name[1]

\* C25 (amended): the column of a field whose name ends in __c has the
\* field's name under api_native, and under every other convention the
\* field's name with each capital made lower case and nothing else
\* changed, which is the field's name when it has no capital.
C25_CustomNameOnlyLowered ==
  (Derived /\ applied.described) =>
    LET kept == KeptFields(applied.fields)
    IN \A k \in 1..Len(kept) :
         (k <= Len(FieldCols) /\ EndsInCustomSuffix(kept[k].name[1])) =>
           FieldCols[k].Name
             = IF applied.config.NamingConvention = "api_native"
                 THEN kept[k].name[1]
                 ELSE Lowered(kept[k].name[1])

\* Under snake_case the column of MyRating__c is myrating__c.
C25_Witness ==
  /\ Derived
  /\ applied.config.NamingConvention = "snake_case"
  /\ Len(applied.fields) = 1
  /\ applied.fields[1].name
       = <<<<"M", "y", "R", "a", "t", "i", "n", "g", "_", "_", "c">>>>
  /\ Len(applied.result.cols) = 2
  /\ applied.result.cols[2].Name
       = <<"m", "y", "r", "a", "t", "i", "n", "g", "_", "_", "c">>

\* --------------------------------------------------------------- C26
\* The last page requested in the first n entries of p's log (0: none).
PagesRequested(p, n) ==
  LET pages == {hist[p].log[i].page :
                  i \in {k \in 1..n : hist[p].log[k].kind = "query"}}
  IN IF pages = {} THEN 0 ELSE CHOOSE m \in pages : \A q \in pages : q <= m

\* C26: after the caller has cancelled a list operation, no page beyond
\* those already requested is requested and no record of such a page is
\* emitted.
C26_StopsWhenCancelled ==
  \A p \in Procs :
    \A i \in 1..Len(hist[p].log) :
      hist[p].log[i].kind = "cancel" =>
        \A j \in (i + 1)..Len(hist[p].log) :
          hist[p].log[j].kind \in {"query", "emit"} =>
            hist[p].log[j].page <= PagesRequested(p, i)

\* --------------------------------------------------------------- C27
\* The callers that were told of the expiry of session s and then made a
\* new session.
Reauthenticated(s) ==
  {p \in Procs :
     \E i \in Detections(p) :
       /\ hist[p].log[i].sid = s
       /\ \E j \in (i + 1)..Len(hist[p].log) :
            /\ hist[p].log[j].kind = "auth"
            /\ hist[p].log[j].sid # NoSession}

\* C27: a reconnect removes from the cache only the session whose
\* expiry its caller was told of, and the expiry of one session makes at
\* most one caller authenticate again.
C27_RemovesOnlyDetected ==
  /\ \A p \in Procs :
       \A k \in 1..Len(hist[p].log) :
         (hist[p].log[k].kind = "delete" /\ hist[p].log[k].sid # NoSession) =>
           /\ k - 2 \in Detections(p)
           /\ hist[p].log[k - 2].sid = hist[p].log[k].sid
  /\ \A s \in 1..sessions : Cardinality(Reauthenticated(s)) <= 1

\* --------------------------------------------------------------- C28
\* A row whose is_active is v satisfies the condition built.
RowPasses(v) ==
  \/ built.result = ""
  \/ built.result = "IsActive = TRUE" /\ v
  \/ built.result = "IsActive = FALSE" /\ ~v

\* C28: for a qualifier = or <> with a boolean value on a BOOL column,
\* every row whose column value satisfies the qualifier satisfies the
\* condition built.
C28_NoMatchingRowExcluded ==
  (/\ OneQualCall
   /\ TheColumn = Column(IsActiveN, "BOOL")
   /\ TheQual.Operator \in {"=", "<>"}
   /\ TheQual.Value.kind = "bool") =>
    \A v \in BOOLEAN :
      (IF TheQual.Operator = "=" THEN v = TheQual.Value.bool
       ELSE v # TheQual.Value.bool) => RowPasses(v)

\* --------------------------------------------------------------- C29
\* An answer that ends the call of queryWithRetry with an error: an error
\* of the retry, or an error of the first attempt that is not an expiry.
Unrecovered(e) ==
  /\ e.kind = "query"
  /\ e.resp # ErrNone
  /\ e.attempt = 2 \/ ~isSessionExpiredError(e.resp)

\* The requests of a list operation come one after the other, page by
\* page: the first request of a page follows the emission of the page
\* before; no page is requested more than twice; the emission of the last
\* page is the last thing done; an unrecovered error is the last thing
\* done and the error the operation returns; an error of reconnect is the
\* error the operation returns.
PageByPage(p) ==
  LET log == hist[p].log
  IN /\ \A j \in 1..Len(log) :
          (log[j].kind = "query" /\ log[j].attempt = 1 /\ log[j].page > 1) =>
            /\ log[j - 1].kind = "emit"
            /\ log[j - 1].page = log[j].page - 1
     /\ \A k \in 1..loc[p].npages :
          Cardinality({j \in 1..Len(log) :
                         log[j].kind = "query" /\ log[j].page = k}) <= 2
     /\ \A j \in 1..Len(log) :
          (log[j].kind = "emit" /\ log[j].page = loc[p].npages) =>
            /\ j = Len(log)
            /\ pc[p] = "done"
            /\ ret[p].err = ErrNone
     /\ \A j \in 1..Len(log) :
          Unrecovered(log[j]) =>
            /\ j = Len(log)
            /\ pc[p] \in {"l_page", "done"}
            /\ ret[p].err = log[j].resp
     /\ (pc[p] = "done" /\ log # <<>> /\ LastEvent(p).kind \in {"auth", "reconnect"}
           /\ Count(p, "query") > 0) =>
          ret[p].err = ReconnectError(p)

\* C29: the pages of a list operation are requested one after the
\* other, each at most twice; the operation is over once the page the
\* remote answers with done is emitted, with no further request; an error
\* the one retry does not recover ends the operation with that error; and
\* every list operation ends.
C29_PageByPageAndEnds ==
  /\ [](\A p \in SeqProcs : op[p] = "list" => PageByPage(p))
  /\ \A p \in SeqProcs :
       (op[p] = "list" /\ pc[p] # "done") ~> (pc[p] = "done")

\* A list of two pages has ended without error; the first request of page
\* 2 met an expired session and the retry was answered with done.
C29_Witness ==
  \E p \in SeqProcs :
    /\ ListSucceeded(p)
    /\ loc[p].npages = 2
    /\ Len(Events(p, "query")) = 3
    /\ Events(p, "query")[2].page = 2
    /\ isSessionExpiredError(Events(p, "query")[2].resp)
    /\ Events(p, "query")[3].attempt = 2
    /\ LastEvent(p).kind = "emit"
    /\ LastEvent(p).page = 2

\* --------------------------------------------------------------- C30
\* C30: when the query of the organization-id lookup was answered
\* with a session-expiry signal, the lookup has, by the time the query
\* step is over, deleted the cache entry and sent the query again through
\* another session.
C30_LookupRecoversFromExpiry ==
  \A p \in Procs :
    (op[p] = "orgid" /\ pc[p] \in {"m_store", "done"}) =>
      \A i \in 1..Len(hist[p].log) :
        (/\ hist[p].log[i].kind = "orgquery"
         /\ hist[p].log[i].attempt = 1
         /\ isSessionExpiredError(hist[p].log[i].resp)) =>
          \E j \in (i + 1)..Len(hist[p].log) :
            /\ hist[p].log[j].kind = "delete"
            /\ \E k \in (j + 1)..Len(hist[p].log) :
                 /\ hist[p].log[k].kind = "orgquery"
                 /\ hist[p].log[k].sid # hist[p].log[i].sid
====
